---- MODULE Spec2Model ----
(***************************************************************************)
(* The import pipelines of the CNPJ loaders:                               *)
(*   scripts/cnpj_importer.py      (.zip  -> PostgreSQL)                   *)
(*   scripts/import_to_postgres.py (.parquet -> PostgreSQL)                *)
(*   scripts/import_to_mongodb.py  (.parquet -> MongoDB)                   *)
(* One run of main() is one behaviour.  The destination is modelled as a   *)
(* per-table column list and row sequence, with the uncommitted tail of    *)
(* the connection's open transaction tracked separately.                   *)
(***************************************************************************)
EXTENDS Integers, Sequences, FiniteSets, TLC

(***************************************************************************)
(* Bounds of the model                                                     *)
(***************************************************************************)
\* tables of one run whose destination state, source files or faults differ
\* from the plain case (table absent, one archive of one row, no fault)
MaxDeviantTables == 1
\* source archives of one table
MaxFiles == 2
\* rows of one source archive
MaxRows == 3
\* rows a destination table holds before the run
MaxOldRows == 2
\* errors raised by the destination or the reader in one run
MaxFaults == 1
\* rows of estabelecimentos.csv
MaxChildRows == 2
\* rows of socios.csv
MaxSocios == 1
\* rows of empresas.csv
MaxParentRows == 2
\* lookup .csv files that are not in data_outgoing
MaxMissingLookups == 1
\* establishments of one company
MaxGroupRows == 3
\* digits of a date field
MaxDateLen == 8
\* archive links in the folder listing
MaxLinks == 2
\* chunks of a remote archive
MaxChunks == 2

(***************************************************************************)
(* Program constants                                                       *)
(***************************************************************************)
\* PG_BATCH_SIZE; the deployment sets it through the environment
BATCH_SIZE == 2

\* cnpj_importer.connect_to_postgres
max_retries == 6
retry_delay == 5

IMPORT_ORDER ==
    << "motivos", "municipios", "natureza", "qualificacoes", "paises",
       "empresas", "estabelecimentos", "socios", "simples", "cnaes" >>

Tables == { IMPORT_ORDER[i] : i \in 1..Len(IMPORT_ORDER) }

TABLE_SCHEMAS ==
    [ motivos |-> << "codigo_motivo", "descricao_motivo" >>,
      municipios |-> << "codigo_municipio", "nome_municipio" >>,
      natureza |-> << "codigo_natureza_juridica", "descricao_natureza_juridica" >>,
      qualificacoes |-> << "codigo_qualificacao", "descricao_qualificacao" >>,
      paises |-> << "codigo_pais", "nome_pais" >>,
      empresas |-> << "cnpj_basico", "razao_social", "natureza_juridica",
                      "qualificacao_do_responsavel", "capital_social",
                      "porte_da_empresa", "ente_federativo_responsavel" >>,
      estabelecimentos |-> << "cnpj_basico", "cnpj_ordem", "cnpj_dv",
                      "identificador_matriz_filial", "nome_fantasia",
                      "situacao_cadastral", "data_situacao_cadastral",
                      "motivo_situacao_cadastral", "nome_da_cidade_no_exterior",
                      "pais", "data_de_inicio_da_atividade",
                      "cnae_fiscal_principal", "cnae_fiscal_secundaria",
                      "tipo_de_logradouro", "logradouro", "numero",
                      "complemento", "bairro", "cep", "uf", "municipio",
                      "ddd1", "telefone1", "ddd2", "telefone2", "ddd_do_fax",
                      "fax", "correio_eletronico", "situacao_especial",
                      "data_da_situacao_especial" >>,
      socios |-> << "cnpj_basico", "identificador_de_socio", "nome_do_socio",
                    "cnpj_ou_cpf_do_socio", "qualificacao_do_socio",
                    "data_de_entrada_sociedade", "pais", "representante_legal",
                    "nome_do_representante",
                    "qualificacao_do_representante_legal", "faixa_etaria" >>,
      simples |-> << "cnpj_basico", "opcao_pelo_simples", "data_opcao_simples",
                     "data_exclusao_simples", "opcao_pelo_mei",
                     "data_opcao_mei", "data_exclusao_mei" >>,
      cnaes |-> << "cnpj_basico", "cnae_fiscal_secundaria" >> ]

\* the indexes create_indexes declares: name, table, indexed columns
INDEXES ==
    { [name |-> "idx_empresas_cnpj_basico", table |-> "empresas", cols |-> {"cnpj_basico"}],
      [name |-> "idx_empresas_natureza", table |-> "empresas", cols |-> {"natureza_juridica"}],
      [name |-> "idx_estab_cnpj_basico", table |-> "estabelecimentos", cols |-> {"cnpj_basico"}],
      [name |-> "idx_estab_cnpj_composto", table |-> "estabelecimentos",
       cols |-> {"cnpj_basico", "cnpj_ordem", "cnpj_dv"}],
      [name |-> "idx_estab_cnae_principal", table |-> "estabelecimentos",
       cols |-> {"cnae_fiscal_principal"}],
      [name |-> "idx_estab_situacao", table |-> "estabelecimentos", cols |-> {"situacao_cadastral"}],
      [name |-> "idx_estab_uf", table |-> "estabelecimentos", cols |-> {"uf"}],
      [name |-> "idx_estab_municipio", table |-> "estabelecimentos", cols |-> {"municipio"}],
      [name |-> "idx_socios_cnpj_basico", table |-> "socios", cols |-> {"cnpj_basico"}],
      [name |-> "idx_simples_cnpj_basico", table |-> "simples", cols |-> {"cnpj_basico"}],
      [name |-> "idx_cnaes_cnpj_basico", table |-> "cnaes", cols |-> {"cnpj_basico"}],
      [name |-> "idx_cnaes_secundaria", table |-> "cnaes", cols |-> {"cnae_fiscal_secundaria"}],
      [name |-> "idx_motivos_codigo", table |-> "motivos", cols |-> {"codigo_motivo"}],
      [name |-> "idx_municipios_codigo", table |-> "municipios", cols |-> {"codigo_municipio"}],
      [name |-> "idx_natureza_codigo", table |-> "natureza", cols |-> {"codigo_natureza_juridica"}],
      [name |-> "idx_qualificacoes_codigo", table |-> "qualificacoes",
       cols |-> {"codigo_qualificacao"}],
      [name |-> "idx_paises_codigo", table |-> "paises", cols |-> {"codigo_pais"}],
      [name |-> "idx_empresas_razao_social_trgm", table |-> "empresas", cols |-> {"razao_social"}] }

(***************************************************************************)
(* Helpers on sequences                                                    *)
(***************************************************************************)
Range(s) == { s[i] : i \in 1..Len(s) }

Reverse(s) == [ i \in 1..Len(s) |-> s[Len(s) + 1 - i] ]

Min(a, b) == IF a < b THEN a ELSE b

\* the first n elements of s
Take(s, n) == SubSeq(s, 1, n)

(***************************************************************************)
(* The destination and the source, as the run finds them                   *)
(***************************************************************************)
\* a table that does not exist reports no column
AbsentTable == [cols |-> << >>, rows |-> << >>]

\* the rows a table holds before the run: -1, -2, ...
OldRows(n) == [ i \in 1..n |-> 0 - i ]

\* row i of source archive f
RowId(f, i) == 100 * f + i

\* column lists a pre-existing table may carry: the declared one, the same
\* names in another order, or a list without the first declared column
ExistingCols(t) ==
    { TABLE_SCHEMAS[t], Reverse(TABLE_SCHEMAS[t]), Tail(TABLE_SCHEMAS[t]) }

\* (a MongoDB collection has no column list: only its rows are modelled)
TableStates(t) ==
    {AbsentTable, [cols |-> << >>, rows |-> OldRows(MaxOldRows)]} \cup
    { [cols |-> c, rows |-> OldRows(n)] : c \in ExistingCols(t), n \in {0, MaxOldRows} }

\* one source archive: unreadable (a zip without exactly one inner file, a
\* corrupt parquet file) whatever rows are in it, or readable with some
\* number of rows
Archives == { [bad |-> TRUE, rows |-> MaxRows] } \cup
            { [bad |-> FALSE, rows |-> n] : n \in {0, MaxRows} }

PlainSource == << [bad |-> FALSE, rows |-> 1] >>

Sources ==
    {PlainSource} \cup UNION { [1..k -> Archives] : k \in 0..MaxFiles }

Responses == {"s", "n"}

\* an archive that is opened without the check
ExactlyOneInnerFile_Unchecked(a) == TRUE

\* "len(zip_file_list) != 1" (cnpj_importer line 271) and
\* "len(zip_file_list) == 1" (cnpj_merger line 108)
ExactlyOneInnerFile(a) == ~a.bad

Terminal == {"DONE", "FAILED", "SKIPPED"}

VARIABLES
    script,               \* which script runs: "importer", "postgres", "mongodb",
                          \* "merger"
    force_recreate,       \* PG_FORCE_RECREATE as the run reads it
    force_truncate,       \* PG_FORCE_TRUNCATE as the run reads it (importer)
    configured,           \* tables of config.yaml's database_structure (importer)
    deviant,              \* the tables whose environment is not the plain one
    src,                  \* per table, its source archives in processing order
    db,                   \* per table, the destination as the connection sees it
    db0,                  \* the destination before the run (never changes)
    pending,              \* uncommitted rows at the tail of db[table].rows
    txAborted,            \* the open transaction was aborted by a failed statement
    idx,                  \* names of the indexes that exist (committed)
    index_runs,           \* calls of create_indexes made by main()
    pc,                   \* position in main()
    cur,                  \* position of the loop over IMPORT_ORDER
    status,               \* per table, the step its pipeline reached
    file,                 \* importer: position in the table's archive list
    offset,               \* rows of the current archive already read
    inserted,             \* total_inserted of the archive being loaded
    total_inserted,       \* total_inserted of the table being loaded
    result,               \* per table, the value its import returned
    successful_imports,
    total_files,
    exit_status,          \* -1 while running
    faults,               \* errors raised so far
    hist,                 \* per table, what was done to it (for the properties)
    attempt,              \* connect_to_postgres: the loop variable of range(max_retries)
    connects,             \* connect_to_postgres: calls of psycopg2.connect made
    slept,                \* connect_to_postgres: the time.sleep calls made, in order
    conn,                 \* the connection is open
    run,                  \* which run of main() over the same archives this is
    db1,                  \* the destination as the previous run left it
    export_format,        \* cnpj_merger: config['export_format']
    outfile,              \* cnpj_merger: per table, its file in data_outgoing
    is_first,             \* cnpj_merger: is_first of the table being merged
    lookup_files,         \* cnpj_to_jsonl: the lookup .csv files in data_outgoing
    estabelecimentos_csv, \* cnpj_to_jsonl: rows of estabelecimentos.csv, or Absent
    socios_csv,           \* cnpj_to_jsonl: rows of socios.csv, or Absent
    empresas_csv,         \* cnpj_to_jsonl: rows of empresas.csv
    lookups,              \* cnpj_to_jsonl: names of the lookups that were loaded
    estabelecimentos_grouped, \* cnpj_to_jsonl: key -> rows of the group
    socios_grouped,       \* cnpj_to_jsonl: key -> rows of the group
    jpc,                  \* cnpj_to_jsonl: position in main()
    row,                  \* cnpj_to_jsonl: parent rows gone through
    jsonl_file,           \* cnpj_to_jsonl: the documents written
    total_empresas,       \* cnpj_to_jsonl: the count main() reports
    copy_table,           \* copy_batch: the table of the batch
    copy_file,            \* copy_batch: the columns and the rows of the file read
    copy_df,              \* copy_batch: the data frame of the batch
    payload,              \* copy_batch: what to_csv wrote into the buffer
    copy_sql,             \* copy_batch: the column list of the COPY statement
    stored,               \* copy_batch: the rows as the table received them
    cpc,                  \* copy_batch: position
    list_of_urls,         \* cnpj_extractor: the archive links, in listing order
    local_files,          \* cnpj_extractor: per file name, its file in data_incoming
    worker,               \* cnpj_extractor: per submitted download, its state
    dl_errors             \* cnpj_extractor: requests that failed so far

vars == << script, force_recreate, force_truncate, configured, deviant, src, db, db0,
           pending, txAborted, idx, index_runs, pc, cur, status, file, offset,
           inserted, total_inserted, result, successful_imports, total_files, exit_status,
           faults, hist, attempt, connects, slept, conn, run, db1,
           export_format, outfile, is_first, lookup_files, estabelecimentos_csv,
           socios_csv, empresas_csv, lookups, estabelecimentos_grouped, socios_grouped,
           jpc, row, jsonl_file, total_empresas, copy_table, copy_file, copy_df,
           payload, copy_sql, stored, cpc, list_of_urls, local_files, worker,
           dl_errors >>

\* what the run reads from its configuration and surroundings
cfgVars == << script, force_recreate, force_truncate, configured, deviant, src, db0 >>

\* what connect_to_postgres leaves behind
connVars == << attempt, connects, slept, conn >>

\* what only the start of another run changes
rerunVars == << run, db1 >>

\* what only cnpj_merger changes
mergerVars == << export_format, outfile, is_first >>

\* the files cnpj_to_jsonl reads
jsonlInput == << lookup_files, estabelecimentos_csv, socios_csv, empresas_csv >>

\* what only cnpj_to_jsonl changes
jsonlVars == << jsonlInput, lookups, estabelecimentos_grouped, socios_grouped, jpc, row,
                jsonl_file, total_empresas >>

\* one bulk copy, column by column
copyVars == << copy_table, copy_file, copy_df, payload, copy_sql, stored, cpc >>

\* what only cnpj_extractor changes
downloadVars == << list_of_urls, local_files, worker, dl_errors >>

\* what neither a loader's loop, nor cnpj_merger, nor cnpj_to_jsonl changes
otherVars == << copyVars, downloadVars >>

\* what no step of the loaders' loop over the tables changes
envVars == << cfgVars, connVars, rerunVars, mergerVars, jsonlVars, otherVars, otherVars >>

\* what only index creation changes
idxVars == << idx, index_runs >>

NoHist ==
    [ schemaOK |-> FALSE,     \* the schema step returned success
      declined |-> FALSE,     \* a recreation was asked for and declined
      decided |-> FALSE,      \* maybe_truncate_table returned
      found |-> << >>,        \* the rows maybe_truncate_table found
      asked |-> FALSE,        \* maybe_truncate_table requested a decision
      cleared |-> FALSE,      \* the table was truncated
      rowsAtLoad |-> << >>,   \* the rows when the first batch was about to go
      attempts |-> 0,         \* bulk-copy calls made
      calls |-> << >>,        \* per bulk-copy call, its archive and its rows
      transfers |-> 0,        \* bulk-copy calls that succeeded
      copyFailed |-> 0,       \* bulk-copy calls that raised
      errors |-> 0,           \* logger.error lines about the table
      fatal |-> FALSE,        \* an exception ended the table's import
      fatalFile |-> 0,        \* the archive being loaded when it did
      opened |-> 0 ]          \* archives the table's loop has been through

\* the connection was opened at the first attempt
Connected ==
    /\ attempt = 0
    /\ connects = 1
    /\ slept = << >>
    /\ conn = TRUE

\* cnpj_to_jsonl is not running
JsonlIdle ==
    /\ lookup_files = {}
    /\ estabelecimentos_csv = [exists |-> FALSE, rows |-> << >>]
    /\ socios_csv = [exists |-> FALSE, rows |-> << >>]
    /\ empresas_csv = [exists |-> FALSE, rows |-> << >>]
    /\ lookups = {}
    /\ estabelecimentos_grouped = << >>
    /\ socios_grouped = << >>
    /\ jpc = "idle"
    /\ row = 0
    /\ jsonl_file = << >>
    /\ total_empresas = 0

\* no bulk copy is looked at column by column
CopyIdle ==
    /\ copy_table = "motivos"
    /\ copy_file = [columns |-> << >>, rows |-> 0]
    /\ copy_df = [columns |-> << >>, rows |-> << >>]
    /\ payload = [columns |-> << >>, rows |-> << >>]
    /\ copy_sql = << >>
    /\ stored = << >>
    /\ cpc = "idle"

\* cnpj_extractor does not run
DownloadIdle ==
    /\ list_of_urls = << >>
    /\ local_files = << >>
    /\ worker = << >>
    /\ dl_errors = 0

OtherIdle == CopyIdle /\ DownloadIdle

\* no file in data_outgoing
NoFile == [exists |-> FALSE, header |-> FALSE, rows |-> << >>]

\* the output file a table may have from an earlier run of cnpj_merger
OldFiles == { NoFile, [exists |-> TRUE, header |-> TRUE, rows |-> OldRows(MaxOldRows)] }

\* a loader's main() once the connection to the destination is open, or
\* cnpj_merger at its first line
Init ==
    /\ script \in {"importer", "postgres", "mongodb", "merger"}
    /\ force_recreate \in BOOLEAN
    /\ force_truncate \in IF script = "importer" THEN BOOLEAN ELSE {FALSE}
    /\ deviant \in { S \in SUBSET Tables : Cardinality(S) <= MaxDeviantTables }
    /\ \E c \in SUBSET deviant :
          /\ configured = IF script = "importer" THEN Tables \ c ELSE Tables
          /\ \E d \in [deviant -> UNION { TableStates(t) : t \in Tables }] :
                /\ \A t \in deviant : d[t] \in TableStates(t)
                /\ \A t \in deviant \ configured : d[t] = AbsentTable
                /\ script = "mongodb" => \A t \in deviant : d[t].cols = << >>
                /\ script # "mongodb" =>
                      \A t \in deviant : d[t].cols = << >> => d[t].rows = << >>
                /\ script = "merger" => \A t \in deviant : d[t] = AbsentTable
                /\ db0 = [ t \in Tables |-> IF t \in deviant THEN d[t] ELSE AbsentTable ]
          /\ \E s \in [deviant -> Sources] :
                /\ script \in {"postgres", "mongodb"} => \A t \in deviant : Len(s[t]) <= 1
                /\ \A t \in deviant \ configured : s[t] = PlainSource
                /\ src = [ t \in Tables |-> IF t \in deviant THEN s[t] ELSE PlainSource ]
    /\ db = db0
    /\ pending = 0
    /\ txAborted = FALSE
    /\ idx = {}
    /\ index_runs = 0
    /\ pc = "start"
    /\ cur = 1
    /\ status = [ t \in Tables |-> "PENDING" ]
    /\ file = 0
    /\ offset = 0
    /\ inserted = 0
    /\ total_inserted = 0
    /\ result = [ t \in Tables |-> 0 ]
    /\ successful_imports = 0
    /\ total_files = 0
    /\ exit_status = -1
    /\ faults = 0
    /\ hist = [ t \in Tables |-> NoHist ]
    /\ Connected
    /\ run = 1
    /\ db1 = db0
    /\ export_format \in IF script = "merger" THEN {"csv", "parquet"} ELSE {"csv"}
    /\ \E o \in [deviant -> OldFiles] :
          /\ script # "merger" => \A t \in deviant : o[t] = NoFile
          /\ outfile = [ t \in Tables |-> IF t \in deviant THEN o[t] ELSE NoFile ]
    /\ is_first = TRUE
    /\ JsonlIdle
    /\ OtherIdle


(***************************************************************************)
(* The destination connection: one open transaction                        *)
(***************************************************************************)
\* a rollback that discards nothing
Rollback_KeepsRows(rows, n) == rows

\* conn.rollback(): the uncommitted tail of the table's rows is discarded
Rollback(rows, n) == SubSeq(rows, 1, Len(rows) - n)

\* conn.commit(): ends the transaction; a transaction a failed statement has
\* aborted is rolled back by the server instead of committed
Commit(rows, n, aborted) == IF aborted THEN Rollback(rows, n) ELSE rows

\* a reader that hands over all the rows left in one chunk
Chunk_WholeRest(f, off, n) == [ i \in 1..(n - off) |-> RowId(f, off + i) ]

\* the next chunk of archive f, of which off of n rows have been read:
\* read_csv(chunksize=BATCH_SIZE) / iter_batches(batch_size=BATCH_SIZE)
Chunk(f, off, n) == [ i \in 1..Min(BATCH_SIZE, n - off) |-> RowId(f, off + i) ]

\* COPY ... FROM STDIN of one batch: its rows are appended to the table
copy_batch(rows, batch) == rows \o batch

(***************************************************************************)
(* The schema step and the truncate step, as functions of what they read   *)
(***************************************************************************)
\* a schema step that compares the column names without their order
create_or_validate_table_Unordered(tbl, columns, force, response) ==
    IF tbl.cols = << >>
    THEN [ok |-> TRUE, tbl |-> [cols |-> columns, rows |-> << >>]]
    ELSE IF Range(tbl.cols) = Range(columns)
    THEN [ok |-> TRUE, tbl |-> tbl]
    ELSE IF (IF force THEN "s" ELSE response) = "s"
    THEN [ok |-> TRUE, tbl |-> [cols |-> columns, rows |-> << >>]]
    ELSE [ok |-> FALSE, tbl |-> tbl]

\* cnpj_importer.create_or_validate_table.  tbl is the table as found,
\* columns the declared list, response the answer a prompt would receive.
create_or_validate_table(tbl, columns, force, response) ==
    IF tbl.cols = << >>
    THEN [ok |-> TRUE, tbl |-> [cols |-> columns, rows |-> << >>]]
    ELSE IF tbl.cols = columns
    THEN [ok |-> TRUE, tbl |-> tbl]
    ELSE IF (IF force THEN "s" ELSE response) = "s"
    THEN [ok |-> TRUE, tbl |-> [cols |-> columns, rows |-> << >>]]
    ELSE [ok |-> FALSE, tbl |-> tbl]

\* a schema step that drops the table before it asks
ensure_table_schema_DropsFirst(tbl, columns, force, response) ==
    IF tbl.cols = << >>
    THEN [ok |-> TRUE, tbl |-> [cols |-> columns, rows |-> << >>]]
    ELSE IF tbl.cols = columns
    THEN [ok |-> TRUE, tbl |-> tbl]
    ELSE IF (IF force THEN "s" ELSE response) = "s"
    THEN [ok |-> TRUE, tbl |-> [cols |-> columns, rows |-> << >>]]
    ELSE [ok |-> FALSE, tbl |-> AbsentTable]

\* import_to_postgres.ensure_table_schema
ensure_table_schema(tbl, columns, force, response) ==
    IF tbl.cols = << >>
    THEN [ok |-> TRUE, tbl |-> [cols |-> columns, rows |-> << >>]]
    ELSE IF tbl.cols = columns
    THEN [ok |-> TRUE, tbl |-> tbl]
    ELSE IF (IF force THEN "s" ELSE response) = "s"
    THEN [ok |-> TRUE, tbl |-> [cols |-> columns, rows |-> << >>]]
    ELSE [ok |-> FALSE, tbl |-> tbl]

\* a truncate step that clears whatever the answer is
maybe_truncate_table_IgnoresAnswer(tbl, force, response) ==
    IF Len(tbl.rows) > 0
    THEN [tbl |-> [tbl EXCEPT !.rows = << >>], asked |-> ~force, cleared |-> response = "s"]
    ELSE [tbl |-> tbl, asked |-> FALSE, cleared |-> FALSE]

\* a truncate step that asks whatever the configuration says
maybe_truncate_table_NeverForces(tbl, force, response) ==
    IF Len(tbl.rows) > 0
    THEN IF response = "s"
         THEN [tbl |-> [tbl EXCEPT !.rows = << >>], asked |-> TRUE, cleared |-> TRUE]
         ELSE [tbl |-> tbl, asked |-> TRUE, cleared |-> FALSE]
    ELSE [tbl |-> tbl, asked |-> FALSE, cleared |-> FALSE]

\* maybe_truncate_table.  cnpj_importer reads PG_FORCE_TRUNCATE into force;
\* import_to_postgres has no such flag and always asks (force = FALSE).
maybe_truncate_table(tbl, force, response) ==
    IF Len(tbl.rows) > 0
    THEN IF (IF force THEN "s" ELSE response) = "s"
         THEN [tbl |-> [tbl EXCEPT !.rows = << >>], asked |-> ~force, cleared |-> TRUE]
         ELSE [tbl |-> tbl, asked |-> ~force, cleared |-> FALSE]
    ELSE [tbl |-> tbl, asked |-> FALSE, cleared |-> FALSE]

\* main(): "if result > 0: successful_imports += 1"
CountsAsSuccess(res) == res > 0

\* a loop that passes over every other table
NextTable_Skips(i) == i + 2

\* main(): "for table in IMPORT_ORDER" takes the next position
NextTable(i) == i + 1

\* index creation placed inside the loop, after the first table
LoopEnded_AfterFirst(i) == i > 1

\* main(): the loop over IMPORT_ORDER has ended
LoopEnded(i) == i > Len(IMPORT_ORDER)

(***************************************************************************)
(* Bookkeeping shared by the actions                                       *)
(***************************************************************************)
CurTable == IMPORT_ORDER[cur]

InLoop == pc = "loop" /\ ~LoopEnded(cur)

\* a fault may be raised: only for a deviant table, within the budget
MayFail(t) == t \in deviant /\ faults < MaxFaults

\* the table's import returned res (or raised, res = 0) and main() moves on
Return(t, st, res) ==
    /\ status' = [status EXCEPT ![t] = st]
    /\ result' = [result EXCEPT ![t] = res]
    /\ successful_imports' =
          IF CountsAsSuccess(res) THEN successful_imports + 1 ELSE successful_imports
    /\ cur' = NextTable(cur)

\* a schema step whose failure is not acted upon
AfterSchema_IgnoresFailure(t, ok) ==
    /\ status' = [status EXCEPT ![t] = "SCHEMA_READY"]
    /\ hist' = [hist EXCEPT ![t].schemaOK = ok]
    /\ UNCHANGED << result, successful_imports, cur >>

\* "if not create_or_validate_table(...): return 0" (cnpj_importer line 320)
\* and "if not ensure_table_schema(...): return 0" (import_to_postgres 313)
AfterSchema(t, ok) ==
    IF ok
    THEN /\ status' = [status EXCEPT ![t] = "SCHEMA_READY"]
         /\ hist' = [hist EXCEPT ![t].schemaOK = TRUE]
         /\ UNCHANGED << result, successful_imports, cur >>
    ELSE /\ Return(t, "FAILED", 0)
         /\ hist' = [hist EXCEPT ![t].declined = TRUE, ![t].errors = @ + 1]

LoadIdle == /\ file' = 0 /\ offset' = 0 /\ inserted' = 0 /\ total_inserted' = 0

(***************************************************************************)
(* main() before the loop                                                  *)
(***************************************************************************)
\* cnpj_importer: ensure_extensions touches no table
ImporterSetup ==
    /\ pc = "start" /\ script = "importer"
    /\ pc' = "loop"
    /\ UNCHANGED << envVars, db, pending, txAborted, idxVars, cur, status, file, offset,
                    inserted, total_inserted, result, successful_imports,
                    total_files, exit_status, faults, hist >>

\* import_to_postgres: create_tables, CREATE TABLE IF NOT EXISTS for every schema
create_tables(d) ==
    [ t \in Tables |->
        IF d[t].cols = << >> THEN [cols |-> TABLE_SCHEMAS[t], rows |-> << >>] ELSE d[t] ]

PostgresSetup ==
    /\ pc = "start" /\ script = "postgres"
    /\ db' = create_tables(db)
    /\ pc' = "loop"
    /\ UNCHANGED << envVars, pending, txAborted, idxVars, cur, status, file, offset,
                    inserted, total_inserted, result, successful_imports,
                    total_files, exit_status, faults, hist >>

(***************************************************************************)
(* cnpj_importer.import_table                                              *)
(***************************************************************************)
\* lines 313-321: the table's schema from the config, then the schema step
ImporterSchema ==
    /\ InLoop /\ script = "importer"
    /\ LET t == CurTable IN
       /\ status[t] = "PENDING"
       /\ IF t \notin configured
          THEN /\ Return(t, "FAILED", 0)
               /\ UNCHANGED << db, hist >>
          ELSE \E response \in Responses :
                 LET r == create_or_validate_table(db[t], TABLE_SCHEMAS[t],
                                                   force_recreate, response) IN
                 /\ db' = [db EXCEPT ![t] = r.tbl]
                 /\ AfterSchema(t, r.ok)
    /\ UNCHANGED << envVars, pending, txAborted, idxVars, pc, file, offset, inserted,
                    total_inserted, total_files, exit_status, faults >>

\* line 324: maybe_truncate_table, which commits its TRUNCATE at once
ImporterTruncate ==
    /\ InLoop /\ script = "importer"
    /\ LET t == CurTable IN
       /\ status[t] = "SCHEMA_READY"
       /\ \E response \in Responses :
            LET r == maybe_truncate_table(db[t], force_truncate, response) IN
            /\ db' = [db EXCEPT ![t] = r.tbl]
            /\ status' = [status EXCEPT ![t] = IF r.cleared THEN "TRUNCATED" ELSE "APPENDING"]
            /\ hist' = [hist EXCEPT ![t].decided = TRUE, ![t].found = db[t].rows,
                                    ![t].asked = r.asked, ![t].cleared = r.cleared]
    /\ UNCHANGED << envVars, pending, txAborted, idxVars, pc, cur, file, offset, inserted,
                    total_inserted, result, successful_imports, total_files,
                    exit_status, faults >>

\* lines 327-336: find_zip_files_for_table; no archive ends the import with 0
ImporterFindZips ==
    /\ InLoop /\ script = "importer"
    /\ LET t == CurTable IN
       /\ status[t] \in {"TRUNCATED", "APPENDING"}
       /\ IF src[t] = << >>
          THEN /\ Return(t, "FAILED", 0)
               /\ LoadIdle
               /\ UNCHANGED hist
          ELSE /\ status' = [status EXCEPT ![t] = "LOADING"]
               /\ file' = 1 /\ offset' = 0 /\ inserted' = 0 /\ total_inserted' = 0
               /\ hist' = [hist EXCEPT ![t].rowsAtLoad = db[t].rows]
               /\ UNCHANGED << result, successful_imports, cur >>
    /\ UNCHANGED << envVars, db, pending, txAborted, idxVars, pc, total_files,
                    exit_status, faults >>

\* the archive import_zip_to_postgres is called on, if any is left
Loading(t) ==
    /\ InLoop /\ status[t] = "LOADING"
    /\ file <= Len(src[t])

\* lines 271-273 (not exactly one inner file) and read_csv's EmptyDataError
\* on an inner file without rows: the archive returns 0; lines 340-341 add
\* it and commit
ImportZipRejected ==
    /\ script = "importer"
    /\ LET t == CurTable IN
       /\ Loading(t)
       /\ ~ExactlyOneInnerFile(src[t][file]) \/ src[t][file].rows = 0
       /\ hist' = [hist EXCEPT ![t].errors = @ + 1, ![t].opened = @ + 1]
       /\ file' = file + 1 /\ offset' = 0 /\ inserted' = 0
    /\ UNCHANGED << envVars, db, pending, txAborted, idxVars, pc, cur, status,
                    total_inserted, result, successful_imports, total_files,
                    exit_status, faults >>

\* lines 282-296: one chunk is read and copied
ImportZipCopyBatch ==
    /\ script = "importer"
    /\ LET t == CurTable
           a == src[t][file]
           batch == Chunk(file, offset, a.rows) IN
       /\ Loading(t)
       /\ ExactlyOneInnerFile(a) /\ offset < a.rows
       /\ db' = [db EXCEPT ![t].rows = copy_batch(@, batch)]
       /\ pending' = pending + Len(batch)
       /\ inserted' = inserted + Len(batch)
       /\ offset' = offset + Len(batch)
       /\ hist' = [hist EXCEPT ![t].attempts = @ + 1, ![t].transfers = @ + 1,
                               ![t].calls = Append(@, [f |-> file, n |-> Len(batch)])]
    /\ UNCHANGED << envVars, txAborted, idxVars, pc, cur, status, file, total_inserted,
                    result, successful_imports, total_files, exit_status, faults >>

\* copy_batch raises a database error: lines 301-303 return 0, and the commit
\* of line 341 finds the transaction aborted
ImportZipCopyError ==
    /\ script = "importer"
    /\ LET t == CurTable
           a == src[t][file] IN
       /\ Loading(t) /\ MayFail(t)
       /\ ExactlyOneInnerFile(a) /\ offset < a.rows
       /\ db' = [db EXCEPT ![t].rows = Commit(@, pending, TRUE)]
       /\ pending' = 0
       /\ txAborted' = FALSE
       /\ hist' = [hist EXCEPT ![t].attempts = @ + 1, ![t].copyFailed = @ + 1,
                               ![t].errors = @ + 1,
                               ![t].calls = Append(@, [f |-> file,
                                   n |-> Len(Chunk(file, offset, a.rows))]),
                               ![t].opened = @ + 1]
       /\ file' = file + 1 /\ offset' = 0 /\ inserted' = 0
       /\ faults' = faults + 1
    /\ UNCHANGED << envVars, idxVars, pc, cur, status, total_inserted, result,
                    successful_imports, total_files, exit_status >>

\* read_csv raises while reading the next chunk (a parser or decoding error):
\* lines 301-303 return 0, and line 341 commits the open transaction
ImportZipParseError ==
    /\ script = "importer"
    /\ LET t == CurTable
           a == src[t][file] IN
       /\ Loading(t) /\ MayFail(t)
       /\ ExactlyOneInnerFile(a) /\ offset < a.rows
       /\ db' = [db EXCEPT ![t].rows = Commit(@, pending, txAborted)]
       /\ pending' = 0
       /\ txAborted' = FALSE
       /\ hist' = [hist EXCEPT ![t].errors = @ + 1, ![t].opened = @ + 1]
       /\ file' = file + 1 /\ offset' = 0 /\ inserted' = 0
       /\ faults' = faults + 1
    /\ UNCHANGED << envVars, idxVars, pc, cur, status, total_inserted, result,
                    successful_imports, total_files, exit_status >>

\* lines 298-299 and 340-341: the archive is read through; its count is added
\* and the transaction committed
ImportZipDone ==
    /\ script = "importer"
    /\ LET t == CurTable
           a == src[t][file] IN
       /\ Loading(t)
       /\ ExactlyOneInnerFile(a) /\ a.rows > 0 /\ offset = a.rows
       /\ db' = [db EXCEPT ![t].rows = Commit(@, pending, txAborted)]
       /\ pending' = 0
       /\ txAborted' = FALSE
       /\ total_inserted' = total_inserted + inserted
       /\ file' = file + 1 /\ offset' = 0 /\ inserted' = 0
       /\ hist' = [hist EXCEPT ![t].opened = @ + 1]
    /\ UNCHANGED << envVars, idxVars, pc, cur, status, result, successful_imports,
                    total_files, exit_status, faults >>

\* line 341 raises: the exception leaves import_table, and main() (lines
\* 439-441) logs it and rolls back
ImportZipCommitError ==
    /\ script = "importer"
    /\ LET t == CurTable
           a == src[t][file] IN
       /\ Loading(t) /\ MayFail(t)
       /\ ExactlyOneInnerFile(a) /\ a.rows > 0 /\ offset = a.rows
       /\ db' = [db EXCEPT ![t].rows = Rollback(@, pending)]
       /\ pending' = 0
       /\ txAborted' = FALSE
       /\ Return(t, "FAILED", 0)
       /\ hist' = [hist EXCEPT ![t].errors = @ + 1, ![t].fatal = TRUE,
                               ![t].fatalFile = file, ![t].opened = @ + 1]
       /\ LoadIdle
       /\ faults' = faults + 1
    /\ UNCHANGED << envVars, idxVars, pc, total_files, exit_status >>

\* lines 343-345: every archive was handled
ImportTableDone ==
    /\ script = "importer"
    /\ LET t == CurTable IN
       /\ InLoop /\ status[t] = "LOADING"
       /\ file > Len(src[t])
       /\ Return(t, "DONE", total_inserted)
       /\ LoadIdle
    /\ UNCHANGED << envVars, db, pending, txAborted, idxVars, pc, total_files,
                    exit_status, faults, hist >>


(***************************************************************************)
(* import_to_postgres.main and import_parquet_to_postgres                  *)
(***************************************************************************)
\* main() lines 403-406: a table without a parquet file is passed over and
\* is not counted in total_files
PostgresSkip ==
    /\ InLoop /\ script = "postgres"
    /\ LET t == CurTable IN
       /\ status[t] = "PENDING"
       /\ src[t] = << >>
       /\ status' = [status EXCEPT ![t] = "SKIPPED"]
       /\ cur' = NextTable(cur)
    /\ UNCHANGED << envVars, db, pending, txAborted, idxVars, pc, file, offset, inserted,
                    total_inserted, result, successful_imports, total_files,
                    exit_status, faults, hist >>

\* main() lines 407-410, then lines 308-314: the file is opened (a corrupt
\* file raises, which lines 333-336 turn into a rollback and 0) and the
\* schema step runs
PostgresSchema ==
    /\ InLoop /\ script = "postgres"
    /\ LET t == CurTable IN
       /\ status[t] = "PENDING"
       /\ src[t] # << >>
       /\ total_files' = total_files + 1
       /\ IF src[t][1].bad
          THEN /\ Return(t, "FAILED", 0)
               /\ hist' = [hist EXCEPT ![t].errors = @ + 1, ![t].fatal = TRUE,
                                       ![t].fatalFile = 1]
               /\ UNCHANGED db
          ELSE \E response \in Responses :
                 LET r == ensure_table_schema(db[t], TABLE_SCHEMAS[t],
                                              force_recreate, response) IN
                 /\ db' = [db EXCEPT ![t] = r.tbl]
                 /\ AfterSchema(t, r.ok)
    /\ UNCHANGED << envVars, pending, txAborted, idxVars, pc, file, offset, inserted,
                    total_inserted, exit_status, faults >>

\* line 316: maybe_truncate_table, which commits its TRUNCATE at once
PostgresTruncate ==
    /\ InLoop /\ script = "postgres"
    /\ LET t == CurTable IN
       /\ status[t] = "SCHEMA_READY"
       /\ \E response \in Responses :
            LET r == maybe_truncate_table(db[t], FALSE, response) IN
            /\ db' = [db EXCEPT ![t] = r.tbl]
            /\ status' = [status EXCEPT ![t] = IF r.cleared THEN "TRUNCATED" ELSE "APPENDING"]
            /\ hist' = [hist EXCEPT ![t].decided = TRUE, ![t].found = db[t].rows,
                                    ![t].asked = r.asked, ![t].cleared = r.cleared]
    /\ UNCHANGED << envVars, pending, txAborted, idxVars, pc, cur, file, offset, inserted,
                    total_inserted, result, successful_imports, total_files,
                    exit_status, faults >>

\* lines 318-320: the batch loop is entered
PostgresBeginLoad ==
    /\ InLoop /\ script = "postgres"
    /\ LET t == CurTable IN
       /\ status[t] \in {"TRUNCATED", "APPENDING"}
       /\ status' = [status EXCEPT ![t] = "LOADING"]
       /\ file' = 1 /\ offset' = 0 /\ inserted' = 0 /\ total_inserted' = 0
       /\ hist' = [hist EXCEPT ![t].rowsAtLoad = db[t].rows]
    /\ UNCHANGED << envVars, db, pending, txAborted, idxVars, pc, cur, result,
                    successful_imports, total_files, exit_status, faults >>

\* lines 320-323: one batch is converted and copied
PostgresCopyBatch ==
    /\ script = "postgres"
    /\ LET t == CurTable
           a == src[t][1]
           batch == Chunk(1, offset, a.rows) IN
       /\ Loading(t)
       /\ offset < a.rows
       /\ db' = [db EXCEPT ![t].rows = copy_batch(@, batch)]
       /\ pending' = pending + Len(batch)
       /\ total_inserted' = total_inserted + Len(batch)
       /\ offset' = offset + Len(batch)
       /\ hist' = [hist EXCEPT ![t].attempts = @ + 1, ![t].transfers = @ + 1,
                               ![t].calls = Append(@, [f |-> 1, n |-> Len(batch)])]
    /\ UNCHANGED << envVars, txAborted, idxVars, pc, cur, status, file, inserted,
                    result, successful_imports, total_files, exit_status, faults >>

\* copy_batch (or the batch's conversion) raises: lines 333-336 roll back and
\* return 0
PostgresCopyError ==
    /\ script = "postgres"
    /\ LET t == CurTable
           a == src[t][1] IN
       /\ Loading(t) /\ MayFail(t)
       /\ offset < a.rows
       /\ db' = [db EXCEPT ![t].rows = Rollback(@, pending)]
       /\ pending' = 0
       /\ Return(t, "FAILED", 0)
       /\ hist' = [hist EXCEPT ![t].attempts = @ + 1, ![t].copyFailed = @ + 1,
                               ![t].errors = @ + 1, ![t].fatal = TRUE,
                               ![t].fatalFile = 1,
                               ![t].calls = Append(@, [f |-> 1,
                                   n |-> Len(Chunk(1, offset, a.rows))])]
       /\ LoadIdle
       /\ faults' = faults + 1
    /\ UNCHANGED << envVars, txAborted, idxVars, pc, total_files, exit_status >>

\* lines 328-331: the batches are through; commit and return the count
PostgresDone ==
    /\ script = "postgres"
    /\ LET t == CurTable
           a == src[t][1] IN
       /\ Loading(t)
       /\ offset = a.rows
       /\ db' = [db EXCEPT ![t].rows = Commit(@, pending, txAborted)]
       /\ pending' = 0
       /\ Return(t, "DONE", total_inserted)
       /\ LoadIdle
    /\ UNCHANGED << envVars, txAborted, idxVars, pc, total_files, exit_status, faults, hist >>

(***************************************************************************)
(* import_to_mongodb.main and import_parquet_to_mongodb                    *)
(***************************************************************************)
\* BATCH_SIZE of import_to_mongodb (10000 there), scaled like BATCH_SIZE
MONGO_BATCH_SIZE == 2

\* the documents of a batch the sink accepted, in the batch's order
Accepted(batch, keep) ==
    LET F[i \in 0..Len(batch)] ==
          IF i = 0 THEN << >>
          ELSE IF i \in keep THEN Append(F[i - 1], batch[i]) ELSE F[i - 1]
    IN F[Len(batch)]

\* a handler that counts nothing for a batch the sink partly rejected
CountOnBulkWriteError_Nothing(nInserted) == 0

\* lines 125 and 157: bwe.details.get('nInserted', 0) is what the handler of
\* BulkWriteError adds to total_inserted
CountOnBulkWriteError(nInserted) == nInserted

\* main() lines 233-237: the parquet files found are the run's work list
MongoSetup ==
    /\ pc = "start" /\ script = "mongodb"
    /\ total_files' = Cardinality({ t \in Tables : src[t] # << >> })
    /\ pc' = "loop"
    /\ UNCHANGED << envVars, db, pending, txAborted, idxVars, cur, status, file, offset,
                    inserted, total_inserted, result, successful_imports,
                    exit_status, faults, hist >>

\* a table without a parquet file is not in the work list
MongoSkip ==
    /\ InLoop /\ script = "mongodb"
    /\ LET t == CurTable IN
       /\ status[t] = "PENDING"
       /\ src[t] = << >>
       /\ status' = [status EXCEPT ![t] = "SKIPPED"]
       /\ cur' = NextTable(cur)
    /\ UNCHANGED << envVars, db, pending, txAborted, idxVars, pc, file, offset, inserted,
                    total_inserted, result, successful_imports, total_files,
                    exit_status, faults, hist >>

\* lines 91-107: the file is opened (a corrupt file raises and lines 168-170
\* return 0); a collection that holds documents is cleared if the answer is s
MongoTruncate ==
    /\ InLoop /\ script = "mongodb"
    /\ LET t == CurTable IN
       /\ status[t] = "PENDING"
       /\ src[t] # << >>
       /\ IF src[t][1].bad
          THEN /\ Return(t, "FAILED", 0)
               /\ hist' = [hist EXCEPT ![t].errors = @ + 1, ![t].fatal = TRUE,
                                       ![t].fatalFile = 1]
               /\ UNCHANGED db
          ELSE \E response \in Responses :
                 LET r == maybe_truncate_table(db[t], FALSE, response) IN
                 /\ db' = [db EXCEPT ![t] = r.tbl]
                 /\ status' = [status EXCEPT
                                 ![t] = IF r.cleared THEN "TRUNCATED" ELSE "APPENDING"]
                 /\ hist' = [hist EXCEPT ![t].decided = TRUE, ![t].found = db[t].rows,
                                         ![t].asked = r.asked, ![t].cleared = r.cleared]
                 /\ UNCHANGED << result, successful_imports, cur >>
    /\ UNCHANGED << envVars, pending, txAborted, idxVars, pc, file, offset, inserted,
                    total_inserted, total_files, exit_status, faults >>

\* lines 112-133: the insertion starts
MongoBeginLoad ==
    /\ InLoop /\ script = "mongodb"
    /\ LET t == CurTable IN
       /\ status[t] \in {"TRUNCATED", "APPENDING"}
       /\ status' = [status EXCEPT ![t] = "LOADING"]
       /\ file' = 1 /\ offset' = 0 /\ inserted' = 0 /\ total_inserted' = 0
       /\ hist' = [hist EXCEPT ![t].rowsAtLoad = db[t].rows]
    /\ UNCHANGED << envVars, db, pending, txAborted, idxVars, pc, cur, result,
                    successful_imports, total_files, exit_status, faults >>

\* the slice the next insert_many carries: the whole file when it has no more
\* than MONGO_BATCH_SIZE rows (lines 115-118), else the next slice (133-144)
MongoBatch(off, n) ==
    [ i \in 1..Min(MONGO_BATCH_SIZE, n - off) |-> RowId(1, off + i) ]

\* lines 120-123 and 146-149: insert_many accepts the whole batch
MongoInsert ==
    /\ script = "mongodb"
    /\ LET t == CurTable
           a == src[t][1]
           batch == MongoBatch(offset, a.rows) IN
       /\ Loading(t)
       /\ offset < a.rows
       /\ db' = [db EXCEPT ![t].rows = @ \o batch]
       /\ total_inserted' = total_inserted + Len(batch)
       /\ offset' = offset + Len(batch)
       /\ hist' = [hist EXCEPT ![t].attempts = @ + 1, ![t].transfers = @ + 1,
                               ![t].calls = Append(@, [f |-> 1, n |-> Len(batch)])]
    /\ UNCHANGED << envVars, pending, txAborted, idxVars, pc, cur, status, file, inserted,
                    result, successful_imports, total_files, exit_status, faults >>

\* lines 124-126 and 155-158: insert_many(ordered=False) rejects some
\* documents; the accepted ones are stored and nInserted is added
MongoInsertPartial ==
    /\ script = "mongodb"
    /\ LET t == CurTable
           a == src[t][1]
           batch == MongoBatch(offset, a.rows) IN
       /\ Loading(t) /\ MayFail(t)
       /\ offset < a.rows
       /\ \E keep \in (SUBSET (1..Len(batch))) \ {1..Len(batch)} :
            /\ db' = [db EXCEPT ![t].rows = @ \o Accepted(batch, keep)]
            /\ total_inserted' = total_inserted + CountOnBulkWriteError(Cardinality(keep))
       /\ offset' = offset + Len(batch)
       /\ hist' = [hist EXCEPT ![t].attempts = @ + 1, ![t].copyFailed = @ + 1,
                               ![t].calls = Append(@, [f |-> 1, n |-> Len(batch)])]
       /\ faults' = faults + 1
    /\ UNCHANGED << envVars, pending, txAborted, idxVars, pc, cur, status, file, inserted,
                    result, successful_imports, total_files, exit_status >>

\* a file without rows: insert_many([]) raises, and lines 168-170 return 0
MongoInsertEmpty ==
    /\ script = "mongodb"
    /\ LET t == CurTable IN
       /\ Loading(t)
       /\ src[t][1].rows = 0
       /\ Return(t, "FAILED", 0)
       /\ hist' = [hist EXCEPT ![t].errors = @ + 1, ![t].fatal = TRUE,
                               ![t].fatalFile = 1]
       /\ LoadIdle
    /\ UNCHANGED << envVars, db, pending, txAborted, idxVars, pc, total_files,
                    exit_status, faults >>

\* lines 160-166: the collection's own indexes are created (best effort) and
\* the count is returned
MongoDone ==
    /\ script = "mongodb"
    /\ LET t == CurTable
           a == src[t][1] IN
       /\ Loading(t)
       /\ a.rows > 0 /\ offset = a.rows
       /\ Return(t, "DONE", total_inserted)
       /\ LoadIdle
    /\ UNCHANGED << envVars, db, pending, txAborted, idxVars, pc, total_files,
                    exit_status, faults, hist >>

\* main() lines 247-251, after the loop
MongoSummary ==
    /\ pc = "loop" /\ LoopEnded(cur) /\ script = "mongodb"
    /\ pc' = "summary"
    /\ UNCHANGED << envVars, db, pending, txAborted, idxVars, cur, status, file, offset,
                    inserted, total_inserted, result, successful_imports,
                    total_files, exit_status, faults, hist >>

(***************************************************************************)
(* cnpj_merger: the archives of each table are merged into one output file *)
(***************************************************************************)
\* line 122: read_csv(..., nrows=10_000), scaled like BATCH_SIZE
nrows == 2

\* the rows read_csv returns for archive f
ReadCsv(f, a) == [ i \in 1..Min(a.rows, nrows) |-> RowId(f, i) ]

\* export_dataframe(df, export_path, header=is_first): to_csv is called with
\* the default mode 'w' and writes the file anew; to_parquet writes the file
\* anew when header is set and appends to it otherwise
export_dataframe(old, df, format, header) ==
    IF format = "csv"
    THEN [exists |-> TRUE, header |-> header, rows |-> df]
    ELSE IF header
         THEN [exists |-> TRUE, header |-> TRUE, rows |-> df]
         ELSE [old EXCEPT !.rows = @ \o df]

\* lines 64-82: the archives in data_incoming are mapped to the tables
MergerSetup ==
    /\ pc = "start" /\ script = "merger"
    /\ pc' = "loop"
    /\ UNCHANGED << envVars, db, pending, txAborted, idxVars, cur, status, file, offset,
                    inserted, total_inserted, result, successful_imports,
                    total_files, exit_status, faults, hist >>

\* lines 85-99: the table's output file of an earlier run is removed
MergerBeginTable ==
    /\ InLoop /\ script = "merger"
    /\ LET t == CurTable IN
       /\ status[t] = "PENDING"
       /\ outfile' = [outfile EXCEPT ![t] = NoFile]
       /\ is_first' = TRUE
       /\ status' = [status EXCEPT ![t] = "LOADING"]
       /\ file' = 1
    /\ UNCHANGED << cfgVars, connVars, rerunVars, jsonlVars, otherVars, export_format, db, pending, txAborted,
                    idxVars, pc, cur, offset, inserted, total_inserted, result,
                    successful_imports, total_files, exit_status, faults, hist >>

\* lines 105-131: the archive's single inner file is read and exported
MergerArchive ==
    /\ script = "merger"
    /\ LET t == CurTable
           a == src[t][file] IN
       /\ Loading(t)
       /\ ExactlyOneInnerFile(a) /\ a.rows > 0
       /\ outfile' = [outfile EXCEPT
                        ![t] = export_dataframe(@, ReadCsv(file, a), export_format, is_first)]
       /\ is_first' = FALSE
       /\ file' = file + 1
       /\ hist' = [hist EXCEPT ![t].opened = @ + 1]
    /\ UNCHANGED << cfgVars, connVars, rerunVars, jsonlVars, otherVars, export_format, db, pending, txAborted,
                    idxVars, pc, cur, status, offset, inserted, total_inserted, result,
                    successful_imports, total_files, exit_status, faults >>

\* lines 133-138: an archive without exactly one inner file raises ValueError,
\* an inner file without rows makes read_csv raise; the handler logs the
\* error and the loop goes on
MergerArchiveError ==
    /\ script = "merger"
    /\ LET t == CurTable
           a == src[t][file] IN
       /\ Loading(t)
       /\ ~ExactlyOneInnerFile(a) \/ a.rows = 0
       /\ file' = file + 1
       /\ hist' = [hist EXCEPT ![t].errors = @ + 1, ![t].opened = @ + 1]
    /\ UNCHANGED << envVars, db, pending, txAborted, idxVars, pc, cur, status, offset,
                    inserted, total_inserted, result, successful_imports,
                    total_files, exit_status, faults >>

\* line 101: the table's archives are through; line 85 takes the next table
MergerTableDone ==
    /\ script = "merger"
    /\ LET t == CurTable IN
       /\ InLoop /\ status[t] = "LOADING"
       /\ file > Len(src[t])
       /\ status' = [status EXCEPT ![t] = "DONE"]
       /\ cur' = NextTable(cur)
       /\ file' = 0
    /\ UNCHANGED << envVars, db, pending, txAborted, idxVars, pc, offset, inserted,
                    total_inserted, result, successful_imports, total_files,
                    exit_status, faults, hist >>

(***************************************************************************)
(* Index creation and the final report                                     *)
(***************************************************************************)
\* CREATE INDEX succeeds when the table exists and has the indexed columns
Creatable(d, i) ==
    /\ d[i.table].cols # << >>
    /\ i.cols \subseteq Range(d[i.table].cols)

\* cnpj_importer.create_indexes walks the index flags of the configured
\* tables and then the composite index of estabelecimentos
DeclaredIndexes ==
    { i \in INDEXES : i.table \in configured \/ i.name = "idx_estab_cnpj_composto" }

\* cnpj_importer.create_indexes: every statement runs in one transaction and
\* every failure is caught; a failed statement aborts the transaction, so the
\* commit of line 394 then keeps nothing
create_indexes(d, declared) ==
    IF \A i \in declared : Creatable(d, i)
    THEN { i.name : i \in declared }
    ELSE {}

\* main() lines 443-447, after the loop
ImporterCreateIndexes ==
    /\ pc = "loop" /\ LoopEnded(cur) /\ script = "importer"
    /\ idx' = idx \cup create_indexes(db, DeclaredIndexes)
    /\ index_runs' = index_runs + 1
    /\ pc' = "summary"
    /\ UNCHANGED << envVars, db, pending, txAborted, cur, status, file, offset,
                    inserted, total_inserted, result, successful_imports,
                    total_files, exit_status, faults, hist >>

\* import_to_postgres.create_indexes has no handler: the first statement that
\* fails raises out of main(), before the commit of line 368
PostgresCreateIndexes ==
    /\ pc = "loop" /\ LoopEnded(cur) /\ script = "postgres"
    /\ IF \A i \in INDEXES : Creatable(db, i)
       THEN /\ idx' = idx \cup { i.name : i \in INDEXES }
            /\ pc' = "summary"
            /\ UNCHANGED exit_status
       ELSE /\ pc' = "crashed"
            /\ exit_status' = 1
            /\ UNCHANGED idx
    /\ index_runs' = index_runs + 1
    /\ UNCHANGED << envVars, db, pending, txAborted, cur, status, file, offset,
                    inserted, total_inserted, result, successful_imports,
                    total_files, faults, hist >>

\* the number main() compares successful_imports with
TotalCount == IF script = "importer" THEN Len(IMPORT_ORDER) ELSE total_files

\* show_summary, conn.close(), the "successful/total" line and the exit status
Report ==
    /\ pc = "summary"
    /\ pc' = "reported"
    /\ exit_status' = IF successful_imports < TotalCount THEN 1 ELSE 0
    /\ UNCHANGED << envVars, db, pending, txAborted, idxVars, cur, status, file, offset,
                    inserted, total_inserted, result, successful_imports,
                    total_files, faults, hist >>

Next ==
    \/ ImporterSetup
    \/ PostgresSetup
    \/ ImporterSchema
    \/ ImporterTruncate
    \/ ImporterFindZips
    \/ ImportZipRejected
    \/ ImportZipCopyBatch
    \/ ImportZipCopyError
    \/ ImportZipParseError
    \/ ImportZipDone
    \/ ImportZipCommitError
    \/ ImportTableDone
    \/ PostgresSkip
    \/ PostgresSchema
    \/ PostgresTruncate
    \/ PostgresBeginLoad
    \/ PostgresCopyBatch
    \/ PostgresCopyError
    \/ PostgresDone
    \/ MongoSetup
    \/ MongoSkip
    \/ MongoTruncate
    \/ MongoBeginLoad
    \/ MongoInsert
    \/ MongoInsertPartial
    \/ MongoInsertEmpty
    \/ MongoDone
    \/ MongoSummary
    \/ MergerSetup
    \/ MergerBeginTable
    \/ MergerArchive
    \/ MergerArchiveError
    \/ MergerTableDone
    \/ ImporterCreateIndexes
    \/ PostgresCreateIndexes
    \/ Report

Spec == Init /\ [][Next]_vars

(***************************************************************************)
(* cnpj_importer.connect_to_postgres, followed by the run it makes possible *)
(***************************************************************************)
\* a pause that grows with the attempt
Delay_Growing(a) == retry_delay * a

\* line 86: time.sleep(retry_delay)
Delay(a) == retry_delay

\* lines 84-86: "if attempt > 0: ... time.sleep(retry_delay)"
Sleep(a) == IF a > 0 THEN Append(slept, Delay(a)) ELSE slept

\* line 99: "if attempt < max_retries - 1" (another iteration follows)
MayRetry(a) == a < max_retries - 1

\* lines 84-97: psycopg2.connect succeeds and the connection is returned
ConnectOk ==
    /\ pc = "connect"
    /\ slept' = Sleep(attempt)
    /\ connects' = connects + 1
    /\ conn' = TRUE
    /\ pc' = "start"
    /\ UNCHANGED << cfgVars, rerunVars, mergerVars, jsonlVars, otherVars, attempt, db, pending, txAborted, idxVars, cur, status, file,
                    offset, inserted, total_inserted, result, successful_imports,
                    total_files, exit_status, faults, hist >>

\* lines 84-104: psycopg2.connect raises psycopg2.Error; a warning and the
\* next iteration, or after the last one an error and sys.exit(1)
ConnectFailed ==
    /\ pc = "connect"
    /\ slept' = Sleep(attempt)
    /\ connects' = connects + 1
    /\ IF MayRetry(attempt)
       THEN /\ attempt' = attempt + 1
            /\ UNCHANGED << pc, exit_status >>
       ELSE /\ pc' = "exited"
            /\ exit_status' = 1
            /\ UNCHANGED attempt
    /\ UNCHANGED << cfgVars, rerunVars, mergerVars, jsonlVars, otherVars, conn, db, pending, txAborted, idxVars, cur, status, file,
                    offset, inserted, total_inserted, result, successful_imports,
                    total_files, faults, hist >>

\* main() of cnpj_importer from its first line, every table in the plain case
InitConnect ==
    /\ script = "importer"
    /\ force_recreate \in BOOLEAN
    /\ force_truncate \in BOOLEAN
    /\ deviant = {}
    /\ configured = Tables
    /\ db0 = [ t \in Tables |-> AbsentTable ]
    /\ src = [ t \in Tables |-> PlainSource ]
    /\ db = db0
    /\ pending = 0
    /\ txAborted = FALSE
    /\ idx = {}
    /\ index_runs = 0
    /\ pc = "connect"
    /\ cur = 1
    /\ status = [ t \in Tables |-> "PENDING" ]
    /\ file = 0
    /\ offset = 0
    /\ inserted = 0
    /\ total_inserted = 0
    /\ result = [ t \in Tables |-> 0 ]
    /\ successful_imports = 0
    /\ total_files = 0
    /\ exit_status = -1
    /\ faults = 0
    /\ hist = [ t \in Tables |-> NoHist ]
    /\ attempt = 0
    /\ connects = 0
    /\ slept = << >>
    /\ conn = FALSE
    /\ run = 1
    /\ db1 = db0
    /\ export_format = "csv"
    /\ outfile = [ t \in Tables |-> NoFile ]
    /\ is_first = TRUE
    /\ JsonlIdle
    /\ OtherIdle

NextConnect ==
    \/ ConnectOk
    \/ ConnectFailed
    \/ ImporterSetup
    \/ ImporterSchema
    \/ ImporterTruncate
    \/ ImporterFindZips
    \/ ImportZipCopyBatch
    \/ ImportZipDone
    \/ ImportTableDone
    \/ ImporterCreateIndexes
    \/ Report

SpecConnect == InitConnect /\ [][NextConnect]_vars

(***************************************************************************)
(* cnpj_importer run twice over the same archives, PG_FORCE_RECREATE and   *)
(* PG_FORCE_TRUNCATE set, no error raised by the destination or the reader *)
(***************************************************************************)
InitRerun ==
    /\ Init
    /\ script = "importer"
    /\ force_recreate
    /\ force_truncate

\* main() is started again: it finds the destination as the first run left it
Restart ==
    /\ pc = "reported" /\ run = 1
    /\ run' = 2
    /\ db1' = db
    /\ db0' = db
    /\ pc' = "start"
    /\ cur' = 1
    /\ status' = [ t \in Tables |-> "PENDING" ]
    /\ LoadIdle
    /\ result' = [ t \in Tables |-> 0 ]
    /\ successful_imports' = 0
    /\ total_files' = 0
    /\ exit_status' = -1
    /\ index_runs' = 0
    /\ hist' = [ t \in Tables |-> NoHist ]
    /\ UNCHANGED << script, force_recreate, force_truncate, configured, deviant, src,
                    connVars, mergerVars, jsonlVars, otherVars, db, pending, txAborted, idx, faults >>

NextRerun ==
    \/ ImporterSetup
    \/ ImporterSchema
    \/ ImporterTruncate
    \/ ImporterFindZips
    \/ ImportZipRejected
    \/ ImportZipCopyBatch
    \/ ImportZipDone
    \/ ImportTableDone
    \/ ImporterCreateIndexes
    \/ Report
    \/ Restart

SpecRerun == InitRerun /\ [][NextRerun]_vars

(***************************************************************************)
(* cnpj_to_jsonl: one document per row of empresas.csv                     *)
(***************************************************************************)
\* a missing value as pandas reads it (NaN); None, written as JSON null
NA == "NaN"
Null == [null |-> TRUE]
\* a .csv file of data_outgoing: not there, or there with these rows
Absent == [exists |-> FALSE, rows |-> << >>]
CsvFile(rows) == [exists |-> TRUE, rows |-> rows]

\* values of cnpj_basico in the input files
Keys == {"k1", "k2"}

\* the lookups the modelled fields use, and the code each of them knows
LookupNames == {"natureza", "motivos", "qualificacoes"}
LookupCodes == {"01"}

\* a code field: missing, known to its lookup, unknown to it
CodeVals == {NA, "01", "99"}

\* a text field whose characters matter: its characters, or NaN
Text(chars) == [s |-> chars]
NAText == [nan |-> TRUE]

\* cnpj_ordem followed by cnpj_dv, as digits
Ordem(i) == << 0, 0, 0, i >>

\* a row of estabelecimentos.csv; id is the row's position in the file
EstabRow(i, key, ordem, matriz_filial, motivo, data, contact) ==
    [ id |-> i, cnpj_basico |-> key, cnpj_ordem |-> ordem,
      identificador_matriz_filial |-> matriz_filial,
      motivo_situacao_cadastral |-> motivo,
      data_situacao_cadastral |-> data,
      ddd1 |-> contact[1], telefone1 |-> contact[2],
      ddd2 |-> contact[3], telefone2 |-> contact[4],
      ddd_do_fax |-> contact[5], fax |-> contact[6],
      correio_eletronico |-> contact[7] ]

\* the contact fields of a row without telephone, fax and e-mail
NoContact == << NA, NA, NA, NA, NA, NA, NA >>

\* estabelecimentos.csv with n rows that differ in key and motivo only: each
\* is a matriz, and cnpj_ordem grows with the position in the file
EstabRows(n) ==
    { [ i \in 1..n |-> EstabRow(i, f[i][1], Ordem(i), "1", f[i][2], NAText, NoContact) ] :
        f \in [1..n -> (Keys \cup {NA}) \X CodeVals] }

\* socios.csv with n rows
SociosRows(n) ==
    { [ i \in 1..n |-> [id |-> i, cnpj_basico |-> f[i], qualificacao_do_socio |-> "01"] ] :
        f \in [1..n -> Keys \cup {NA}] }

\* empresas.csv with n rows
EmpresasRows(n) ==
    { [ i \in 1..n |-> [cnpj_basico |-> f[i][1], natureza_juridica |-> f[i][2]] ] :
        f \in [1..n -> (Keys \cup {NA}) \X {NA, "01"}] }

\* pandas: df.groupby(column) with the default dropna=True: one group per
\* value of the column, rows in file order; rows whose value is missing are
\* in no group
groupby(rows) ==
    [ k \in { rows[i].cnpj_basico : i \in 1..Len(rows) } \ {NA} |->
        SelectSeq(rows, LAMBDA r : r.cnpj_basico = k) ]

\* load_lookup_tables: a lookup is loaded when its file exists
load_lookup_tables(files) == files

\* lookups[name].get(code, None), for a lookup that was loaded
Get(name, code) == IF code \in LookupCodes THEN [description_of |-> code] ELSE Null

\* lookups[name] raises KeyError when the lookup was not loaded
RaisesKeyError(name, code) == code # NA /\ name \notin lookups

RECURSIVE strip(_)
\* str.strip(): the characters without leading and trailing blanks
strip(chars) ==
    IF chars = << >> THEN << >>
    ELSE IF Head(chars) = " " THEN strip(Tail(chars))
    ELSE IF chars[Len(chars)] = " " THEN strip(SubSeq(chars, 1, Len(chars) - 1))
    ELSE chars

\* a parse_date that leaves the digits as they are
parse_date_Unformatted(value) ==
    IF \/ value = NAText
       \/ value = Text(<< >>)
       \/ value = Text(<< "0", "0", "0", "0", "0", "0", "0", "0" >>)
       \/ value = Text(<< "0" >>)
    THEN Null
    ELSE Text(strip(value.s))

\* parse_date
parse_date(value) ==
    IF \/ value = NAText
       \/ value = Text(<< >>)
       \/ value = Text(<< "0", "0", "0", "0", "0", "0", "0", "0" >>)
       \/ value = Text(<< "0" >>)
    THEN Null
    ELSE LET v == strip(value.s) IN
         IF Len(v) = 8
         THEN Text(SubSeq(v, 1, 4) \o << "-" >> \o SubSeq(v, 5, 6) \o << "-" >> \o SubSeq(v, 7, 8))
         ELSE Text(v)

\* str.lower() of the e-mail addresses of the model
lower(email) == IF email = "A@B.C" THEN "a@b.c" ELSE email

\* lines 185-187: f"({ddd}) {telefone}", or None
Telefone(ddd, telefone) ==
    IF ddd # NA /\ telefone # NA /\ telefone # ""
    THEN Text(<< "(", ddd, ") ", telefone >>) ELSE Null

\* a contact block that keeps its entries that are None
Contato_KeepsNone(r) ==
    [ telefone1 |-> Telefone(r.ddd1, r.telefone1),
      telefone2 |-> Telefone(r.ddd2, r.telefone2),
      fax |-> Telefone(r.ddd_do_fax, r.fax),
      email |-> IF r.correio_eletronico # NA /\ r.correio_eletronico # ""
                THEN Text(<< lower(r.correio_eletronico) >>) ELSE Null ]

\* lines 184-195: the contact block; entries that are None are removed, and
\* a block without entries is None
Contato(r) ==
    LET contato == [ telefone1 |-> Telefone(r.ddd1, r.telefone1),
                     telefone2 |-> Telefone(r.ddd2, r.telefone2),
                     fax |-> Telefone(r.ddd_do_fax, r.fax),
                     email |-> IF r.correio_eletronico # NA /\ r.correio_eletronico # ""
                               THEN Text(<< lower(r.correio_eletronico) >>) ELSE Null ]
        kept == { k \in DOMAIN contato : contato[k] # Null }
    IN IF kept = {} THEN Null ELSE [ k \in kept |-> contato[k] ]

\* build_estabelecimento (lines 162-165 and 175-182 use lookups['cnaes'],
\* ['municipios'] and ['paises'] the way lines 157-160 use lookups['motivos']).
\* cnpj is cnpj_basico followed by cnpj_ordem and cnpj_dv.
build_estabelecimento(r) ==
    [ id |-> r.id,
      cnpj |-> [cnpj_basico |-> r.cnpj_basico, cnpj_ordem |-> r.cnpj_ordem],
      matriz |-> r.identificador_matriz_filial = "1",
      data_situacao_cadastral |-> parse_date(r.data_situacao_cadastral),
      motivo_situacao_cadastral |->
          IF r.motivo_situacao_cadastral = NA THEN Null
          ELSE [codigo |-> r.motivo_situacao_cadastral,
                descricao |-> Get("motivos", r.motivo_situacao_cadastral)],
      contato |-> Contato(r) ]

\* a < b for strings of digits, as Python compares strings
StrLess(a, b) ==
    \/ Len(a) < Len(b) /\ a = SubSeq(b, 1, Len(a))
    \/ \E i \in 1..Len(a) :
          /\ i <= Len(b)
          /\ SubSeq(a, 1, i - 1) = SubSeq(b, 1, i - 1)
          /\ a[i] < b[i]

\* line 360: (not x['matriz'], x['cnpj']) < (not y['matriz'], y['cnpj']); the
\* establishments of one list have the same cnpj_basico
SortKeyLess(x, y) ==
    \/ x.matriz /\ ~y.matriz
    \/ x.matriz = y.matriz /\ StrLess(x.cnpj.cnpj_ordem, y.cnpj.cnpj_ordem)

RECURSIVE sort(_)
\* list.sort(key=...): ascending and stable
sort(list) ==
    IF list = << >> THEN << >>
    ELSE LET n == Len(list)
             x == list[n]
             t == sort(SubSeq(list, 1, n - 1))
             k == Cardinality({ i \in 1..(n - 1) : ~SortKeyLess(x, t[i]) })
         IN SubSeq(t, 1, k) \o << x >> \o SubSeq(t, k + 1, n - 1)

\* build_socio, lines 208-211
build_socio(r) ==
    [ id |-> r.id,
      qualificacao |->
          IF r.qualificacao_do_socio = NA THEN Null
          ELSE [codigo |-> r.qualificacao_do_socio,
                descricao |-> Get("qualificacoes", r.qualificacao_do_socio)] ]

\* the rows of a group that are gone through before one of them raises
\* KeyError; "except KeyError: pass" (lines 361 and 371) keeps what was
\* appended until then
\* bad: the positions of the rows that raise
BeforeKeyError(rows, bad) ==
    LET n == IF bad = {} THEN Len(rows)
             ELSE (CHOOSE i \in bad : \A j \in bad : i <= j) - 1
    IN SubSeq(rows, 1, n)

\* a list that is null when the key has no group
Estabelecimentos_NullWhenMissing(key) ==
    IF key \notin DOMAIN estabelecimentos_grouped THEN Null
    ELSE [ i \in 1..Len(estabelecimentos_grouped[key]) |->
             build_estabelecimento(estabelecimentos_grouped[key][i]) ]

\* lines 354-362: get_group raises KeyError for a key without group; the
\* list is sorted when every row of the group was appended
Estabelecimentos(key) ==
    IF key \notin DOMAIN estabelecimentos_grouped THEN << >>
    ELSE LET g == estabelecimentos_grouped[key]
             bad == { i \in 1..Len(g) :
                        RaisesKeyError("motivos", g[i].motivo_situacao_cadastral) }
             rows == BeforeKeyError(g, bad)
             list == [ i \in 1..Len(rows) |-> build_estabelecimento(rows[i]) ]
         IN IF bad = {} THEN sort(list) ELSE list

\* lines 365-372
Socios(key) ==
    IF DOMAIN socios_grouped = {} \/ key \notin DOMAIN socios_grouped THEN << >>
    ELSE LET g == socios_grouped[key]
             rows == BeforeKeyError(g, { i \in 1..Len(g) :
                        RaisesKeyError("qualificacoes", g[i].qualificacao_do_socio) })
         IN [ i \in 1..Len(rows) |-> build_socio(rows[i]) ]

\* lines 333-378: the document of parent row p (the qualificacao_responsavel
\* block is built like natureza_juridica)
Document(p) ==
    [ id |-> p.cnpj_basico,
      natureza_juridica |->
          IF p.natureza_juridica = NA THEN Null
          ELSE [codigo |-> p.natureza_juridica,
                descricao |-> Get("natureza", p.natureza_juridica)],
      estabelecimentos |-> Estabelecimentos(p.cnpj_basico),
      socios |-> Socios(p.cnpj_basico) ]

\* main() lines 275-320: the lookups are loaded, the two required files are
\* looked for (main returns when one is missing), the child tables are read
\* and grouped
JsonlLoad ==
    /\ jpc = "start"
    /\ lookups' = load_lookup_tables(lookup_files)
    /\ IF ~estabelecimentos_csv.exists \/ ~empresas_csv.exists
       THEN /\ jpc' = "returned"
            /\ UNCHANGED << estabelecimentos_grouped, socios_grouped >>
       ELSE /\ jpc' = "assemble"
            /\ estabelecimentos_grouped' = groupby(estabelecimentos_csv.rows)
            /\ socios_grouped' =
                  IF socios_csv.exists THEN groupby(socios_csv.rows) ELSE << >>
    /\ UNCHANGED << cfgVars, connVars, rerunVars, mergerVars, otherVars, jsonlInput, row, jsonl_file,
                    total_empresas, db, pending, txAborted, idxVars, pc, cur, status,
                    file, offset, inserted, total_inserted, result, successful_imports,
                    total_files, exit_status, faults, hist >>

\* lines 329-382: the next row of empresas.csv is assembled and written
JsonlDocument ==
    /\ jpc = "assemble"
    /\ row < Len(empresas_csv.rows)
    /\ LET p == empresas_csv.rows[row + 1] IN
       /\ ~RaisesKeyError("natureza", p.natureza_juridica)
       /\ jsonl_file' = Append(jsonl_file, Document(p))
    /\ total_empresas' = total_empresas + 1
    /\ row' = row + 1
    /\ UNCHANGED << cfgVars, connVars, rerunVars, mergerVars, otherVars, jsonlInput, lookups,
                    estabelecimentos_grouped, socios_grouped, jpc, db, pending,
                    txAborted, idxVars, pc, cur, status, file, offset, inserted,
                    total_inserted, result, successful_imports, total_files,
                    exit_status, faults, hist >>

\* line 339: lookups['natureza'] raises KeyError outside any try; the
\* exception leaves main()
JsonlKeyError ==
    /\ jpc = "assemble"
    /\ row < Len(empresas_csv.rows)
    /\ RaisesKeyError("natureza", empresas_csv.rows[row + 1].natureza_juridica)
    /\ jpc' = "crashed"
    /\ UNCHANGED << cfgVars, connVars, rerunVars, mergerVars, otherVars, jsonlInput, lookups,
                    estabelecimentos_grouped, socios_grouped, row, jsonl_file,
                    total_empresas, db, pending, txAborted, idxVars, pc, cur, status,
                    file, offset, inserted, total_inserted, result, successful_imports,
                    total_files, exit_status, faults, hist >>

\* lines 384-391: every row was gone through; the total is reported
JsonlDone ==
    /\ jpc = "assemble"
    /\ row = Len(empresas_csv.rows)
    /\ jpc' = "done"
    /\ UNCHANGED << cfgVars, connVars, rerunVars, mergerVars, otherVars, jsonlInput, lookups,
                    estabelecimentos_grouped, socios_grouped, row, jsonl_file,
                    total_empresas, db, pending, txAborted, idxVars, pc, cur, status,
                    file, offset, inserted, total_inserted, result, successful_imports,
                    total_files, exit_status, faults, hist >>

\* no loader and no merger runs
LoadersIdle ==
    /\ force_recreate = FALSE
    /\ force_truncate = FALSE
    /\ deviant = {}
    /\ configured = Tables
    /\ db0 = [ t \in Tables |-> AbsentTable ]
    /\ src = [ t \in Tables |-> PlainSource ]
    /\ db = db0
    /\ pending = 0
    /\ txAborted = FALSE
    /\ idx = {}
    /\ index_runs = 0
    /\ pc = "idle"
    /\ cur = 1
    /\ status = [ t \in Tables |-> "PENDING" ]
    /\ file = 0
    /\ offset = 0
    /\ inserted = 0
    /\ total_inserted = 0
    /\ result = [ t \in Tables |-> 0 ]
    /\ successful_imports = 0
    /\ total_files = 0
    /\ exit_status = -1
    /\ faults = 0
    /\ hist = [ t \in Tables |-> NoHist ]
    /\ attempt = 0
    /\ connects = 0
    /\ slept = << >>
    /\ conn = FALSE
    /\ run = 1
    /\ db1 = db0
    /\ export_format = "csv"
    /\ outfile = [ t \in Tables |-> NoFile ]
    /\ is_first = TRUE

\* cnpj_to_jsonl at the first line of main(), with the lookup files and the
\* table files of data_outgoing drawn from the given sets; no loader runs
JsonlStart(lookupFiles, estabelecimentos, socios, empresas) ==
    /\ script = "jsonl"
    /\ LoadersIdle
    /\ OtherIdle
    /\ lookup_files \in lookupFiles
    /\ estabelecimentos_csv \in estabelecimentos
    /\ socios_csv \in socios
    /\ empresas_csv \in empresas
    /\ lookups = {}
    /\ estabelecimentos_grouped = << >>
    /\ socios_grouped = << >>
    /\ jpc = "start"
    /\ row = 0
    /\ jsonl_file = << >>
    /\ total_empresas = 0

\* the lookup files of data_outgoing: at most MaxMissingLookups are missing
LookupFiles ==
    { S \in SUBSET LookupNames : Cardinality(LookupNames \ S) <= MaxMissingLookups }

\* inputs that differ in their keys, their codes and the files that exist
InitJsonl ==
    JsonlStart(LookupFiles,
               {Absent} \cup { CsvFile(r) : r \in UNION { EstabRows(n) : n \in 0..MaxChildRows } },
               {Absent} \cup { CsvFile(r) : r \in UNION { SociosRows(n) : n \in 0..MaxSocios } },
               {Absent} \cup { CsvFile(r) : r \in UNION { EmpresasRows(n) : n \in 0..MaxParentRows } })

NextJsonl ==
    \/ JsonlLoad
    \/ JsonlDocument
    \/ JsonlKeyError
    \/ JsonlDone

SpecJsonl == InitJsonl /\ [][NextJsonl]_vars

\* estabelecimentos.csv with n rows of company k1 that differ in cnpj_ordem,
\* in being matriz or filial, and in having a motivo
GroupRows(n) ==
    { [ i \in 1..n |-> EstabRow(i, "k1", Ordem(f[i][1]), f[i][2], f[i][3], NAText, NoContact) ] :
        f \in [1..n -> (1..MaxGroupRows) \X {"1", "2"} \X {NA, "01"}] }

\* one company with up to MaxGroupRows establishments in any order
InitSort ==
    JsonlStart(LookupFiles,
               { CsvFile(r) : r \in UNION { GroupRows(n) : n \in 0..MaxGroupRows } },
               {Absent},
               { CsvFile(<< [cnpj_basico |-> "k1", natureza_juridica |-> c] >>) : c \in {NA, "01"} })

SpecSort == InitSort /\ [][NextJsonl]_vars

\* the digits of the date fields
DateDigits == {"0", "2"}

\* a date field: missing, up to MaxDateLen digits, or digits and a blank
DateVals ==
    {NAText}
    \cup { Text(s) : s \in UNION { [1..n -> DateDigits] : n \in 0..MaxDateLen } }
    \cup { Text(<< " " >> \o s) : s \in [1..(MaxDateLen - 1) -> DateDigits] }
    \cup { Text(s \o << " " >>) : s \in [1..MaxDateLen -> DateDigits] }

\* one company (whose natureza_juridica is filled) with one establishment
OneCompany == { CsvFile(<< [cnpj_basico |-> "k1", natureza_juridica |-> "01"] >>) }

\* one establishment with any date of situacao cadastral
InitDates ==
    JsonlStart(LookupFiles,
               { CsvFile(<< EstabRow(1, "k1", Ordem(1), "1", NA, v, NoContact) >>) : v \in DateVals },
               {Absent},
               OneCompany)

SpecDates == InitDates /\ [][NextJsonl]_vars

\* an area code and a number: each missing, empty or filled
PhoneVals == {NA, "", "11"} \X {NA, "", "5555"}

\* ddd1, telefone1, ddd2, telefone2, ddd_do_fax, fax, correio_eletronico
ContactVals ==
    { << a[1], a[2], b[1], b[2], f[1], f[2], email >> :
        a \in PhoneVals, b \in PhoneVals, f \in PhoneVals, email \in {NA, "", "A@B.C"} }

\* one establishment with any contact fields
InitContact ==
    JsonlStart(LookupFiles,
               { CsvFile(<< EstabRow(1, "k1", Ordem(1), "1", NA, NAText, c) >>) : c \in ContactVals },
               {Absent},
               OneCompany)

SpecContact == InitContact /\ [][NextJsonl]_vars

(***************************************************************************)
(* copy_batch, column by column                                            *)
(***************************************************************************)
\* what the loaders' loop over the tables changes
loopVars == << db, pending, txAborted, idxVars, pc, cur, status, file, offset, inserted,
               total_inserted, result, successful_imports, total_files, exit_status,
               faults, hist >>

\* the value that row r of the file has in the column named c
Val(c, r) == [column |-> c, row |-> r]

\* cnpj_importer, lines 282-296: pd.read_csv(header=None, names=columns); the
\* fields of the .csv get the declared names in the declared order
read_csv(f, columns) ==
    [ columns |-> columns,
      rows |-> [ r \in 1..f.rows |-> [ i \in 1..Len(columns) |-> Val(columns[i], r) ] ] ]

\* import_to_postgres, lines 318-319: batch.to_pandas(); the data frame has
\* the columns of the .parquet file in the order of the file
to_pandas(f) ==
    [ columns |-> f.columns,
      rows |-> [ r \in 1..f.rows |-> [ i \in 1..Len(f.columns) |-> Val(f.columns[i], r) ] ] ]

\* df.to_csv(buffer, index=False, header=False): the rows, each with its
\* fields in the order of the data frame's columns
to_csv(d) == d

\* COPY table (columns) FROM STDIN: the i-th field of a row of the buffer is
\* stored in the i-th column of the list
copy_expert(columns, buffer) ==
    [ r \in 1..Len(buffer.rows) |->
        [ i \in 1..Len(columns) |-> [column |-> columns[i], value |-> buffer.rows[r][i]] ] ]

\* the batch is read from the file of the table
CopyRead ==
    /\ cpc = "start"
    /\ copy_df' = IF script = "importer"
                  THEN read_csv(copy_file, TABLE_SCHEMAS[copy_table])
                  ELSE to_pandas(copy_file)
    /\ cpc' = "read"
    /\ UNCHANGED << cfgVars, connVars, rerunVars, mergerVars, jsonlVars, loopVars,
                    downloadVars, copy_table, copy_file, payload, copy_sql, stored >>

\* copy_batch(conn, table, df, columns)
CopyBatch ==
    /\ cpc = "read"
    /\ payload' = to_csv(copy_df)
    /\ copy_sql' = TABLE_SCHEMAS[copy_table]
    /\ stored' = copy_expert(copy_sql', payload')
    /\ cpc' = "copied"
    /\ UNCHANGED << cfgVars, connVars, rerunVars, mergerVars, jsonlVars, loopVars,
                    downloadVars, copy_table, copy_file, copy_df >>

\* the orders in which a .parquet file may hold the columns of table t
FileColumns(t) == { TABLE_SCHEMAS[t], Reverse(TABLE_SCHEMAS[t]) }

\* a loader of the relational sink about to read one batch of one table
InitCopy ==
    /\ script \in {"importer", "postgres"}
    /\ LoadersIdle
    /\ JsonlIdle
    /\ copy_table \in Tables
    /\ \E n \in 1..MaxRows :
          \E c \in IF script = "importer" THEN {<< >>} ELSE FileColumns(copy_table) :
              copy_file = [columns |-> c, rows |-> n]
    /\ copy_df = [columns |-> << >>, rows |-> << >>]
    /\ payload = [columns |-> << >>, rows |-> << >>]
    /\ copy_sql = << >>
    /\ stored = << >>
    /\ cpc = "start"
    /\ DownloadIdle

NextCopy ==
    \/ CopyRead
    \/ CopyBatch

SpecCopy == InitCopy /\ [][NextCopy]_vars

(***************************************************************************)
(* cnpj_extractor: the parallel download                                   *)
(***************************************************************************)
\* the file names the links of the listing may end in
Links == {"A.zip", "B.zip"}

\* the k-th chunk of the remote archive of a link
RemoteChunk(url, k) == [of |-> url, chunk |-> k]

\* the remote archive of a link, and its content-length
Remote(url) == [ k \in 1..MaxChunks |-> RemoteChunk(url, k) ]
RemoteSize(url) == Len(Remote(url))

\* bytes of a file that no write has filled
Hole == [of |-> "", chunk |-> 0]

\* no file at the path
NoLocal == [exists |-> FALSE, bytes |-> << >>]

\* f.write(chunk) of a file object whose position is pos: the file grows up
\* to the position if it is shorter
WriteAt(bytes, pos, c) ==
    [ i \in 1..(IF Len(bytes) > pos THEN Len(bytes) ELSE pos + 1) |->
        IF i = pos + 1 THEN c
        ELSE IF i <= Len(bytes) THEN bytes[i] ELSE Hole ]

\* a download that the executor has accepted
Submitted(url) ==
    [url |-> url, pc |-> "submitted", remote_file_size |-> 0, local_file_size |-> 0,
     pos |-> 0, result |-> "running"]

\* lines 122-136: the remote size is asked for (get_remote_file_size gives
\* None when the request fails), and a local file of that size is kept
DownloadCheck(w) ==
    /\ worker[w].pc = "submitted"
    /\ \E failed \in IF dl_errors < MaxFaults THEN {FALSE, TRUE} ELSE {FALSE} :
          LET url == worker[w].url
              remote_file_size == IF failed THEN 0 ELSE RemoteSize(url)
              local == local_files[url]
          IN /\ dl_errors' = IF failed THEN dl_errors + 1 ELSE dl_errors
             /\ worker' = [worker EXCEPT ![w] =
                   IF local.exists /\ remote_file_size # 0 /\ Len(local.bytes) = remote_file_size
                   THEN [@ EXCEPT !.pc = "returned", !.result = "skipped",
                                  !.remote_file_size = remote_file_size,
                                  !.local_file_size = Len(local.bytes)]
                   ELSE [@ EXCEPT !.pc = "get", !.remote_file_size = remote_file_size,
                                  !.local_file_size = Len(local.bytes)]]
    /\ UNCHANGED << cfgVars, connVars, rerunVars, mergerVars, jsonlVars, loopVars, copyVars,
                    list_of_urls, local_files >>

\* lines 140-141 and 172-177: the GET request fails
DownloadGetFailed(w) ==
    /\ worker[w].pc = "get"
    /\ dl_errors < MaxFaults
    /\ dl_errors' = dl_errors + 1
    /\ worker' = [worker EXCEPT ![w].pc = "returned", ![w].result = "None"]
    /\ UNCHANGED << cfgVars, connVars, rerunVars, mergerVars, jsonlVars, loopVars, copyVars,
                    list_of_urls, local_files >>

\* lines 151 and 164: open(local_file_path, 'wb') creates the file or empties it
DownloadOpen(w) ==
    /\ worker[w].pc = "get"
    /\ local_files' = [local_files EXCEPT ![worker[w].url] = [exists |-> TRUE, bytes |-> << >>]]
    /\ worker' = [worker EXCEPT ![w].pc = "writing", ![w].pos = 0]
    /\ UNCHANGED << cfgVars, connVars, rerunVars, mergerVars, jsonlVars, loopVars, copyVars,
                    list_of_urls, dl_errors >>

\* lines 152-153 and 166-167: the next chunk is written
DownloadWrite(w) ==
    /\ worker[w].pc = "writing"
    /\ worker[w].pos < RemoteSize(worker[w].url)
    /\ LET url == worker[w].url
           pos == worker[w].pos
       IN local_files' = [local_files EXCEPT ![url].bytes =
                             WriteAt(@, pos, RemoteChunk(url, pos + 1))]
    /\ worker' = [worker EXCEPT ![w].pos = @ + 1]
    /\ UNCHANGED << cfgVars, connVars, rerunVars, mergerVars, jsonlVars, loopVars, copyVars,
                    list_of_urls, dl_errors >>

\* lines 172-177: the connection breaks while the chunks are read; the file
\* is closed as it is
DownloadWriteFailed(w) ==
    /\ worker[w].pc = "writing"
    /\ worker[w].pos < RemoteSize(worker[w].url)
    /\ dl_errors < MaxFaults
    /\ dl_errors' = dl_errors + 1
    /\ worker' = [worker EXCEPT ![w].pc = "returned", ![w].result = "None"]
    /\ UNCHANGED << cfgVars, connVars, rerunVars, mergerVars, jsonlVars, loopVars, copyVars,
                    list_of_urls, local_files >>

\* lines 170-171: every chunk was written
DownloadDone(w) ==
    /\ worker[w].pc = "writing"
    /\ worker[w].pos = RemoteSize(worker[w].url)
    /\ worker' = [worker EXCEPT ![w].pc = "returned", ![w].result = "downloaded"]
    /\ UNCHANGED << cfgVars, connVars, rerunVars, mergerVars, jsonlVars, loopVars, copyVars,
                    list_of_urls, local_files, dl_errors >>

\* lines 203-218: every link of the listing is submitted to the executor;
\* data_incoming holds what earlier runs downloaded
InitDownload ==
    /\ script = "extractor"
    /\ LoadersIdle
    /\ JsonlIdle
    /\ CopyIdle
    /\ \E n \in 1..MaxLinks : list_of_urls \in [1..n -> Links]
    /\ \E kept \in SUBSET Links :
          local_files = [ u \in Links |->
              IF u \in kept THEN [exists |-> TRUE, bytes |-> Remote(u)] ELSE NoLocal ]
    /\ worker = [ w \in 1..Len(list_of_urls) |-> Submitted(list_of_urls[w]) ]
    /\ dl_errors = 0

NextDownload ==
    \/ \E w \in DOMAIN worker : DownloadCheck(w)
    \/ \E w \in DOMAIN worker : DownloadGetFailed(w)
    \/ \E w \in DOMAIN worker : DownloadOpen(w)
    \/ \E w \in DOMAIN worker : DownloadWrite(w)
    \/ \E w \in DOMAIN worker : DownloadWriteFailed(w)
    \/ \E w \in DOMAIN worker : DownloadDone(w)

SpecDownload == InitDownload /\ [][NextDownload]_vars

(***************************************************************************)
(* Properties                                                              *)
(***************************************************************************)
Relational == script \in {"importer", "postgres"}

LookupTables == {"motivos", "municipios", "natureza", "qualificacoes", "paises"}

DependentTables == {"empresas", "estabelecimentos", "socios", "simples"}

\* rows the table held before the run
IsOldRow(r) == r < 0

\* bulk-copy calls the archive a needs
BatchesOf(a) == IF a.bad THEN 0 ELSE (a.rows + BATCH_SIZE - 1) \div BATCH_SIZE

\* bulk-copy calls all archives of table t need
TotalBatches(t) ==
    LET F[i \in 0..Len(src[t])] ==
          IF i = 0 THEN 0 ELSE F[i - 1] + BatchesOf(src[t][i])
    IN F[Len(src[t])]

\* the table's pipeline went through every step and nothing was logged as an
\* error or rejected
CompletedWithoutError(t) ==
    /\ status[t] = "DONE"
    /\ hist[t].errors = 0
    /\ hist[t].copyFailed = 0

\* C1 (as claimed): a run of cnpj_importer or import_to_postgres never stops
\* before every table has a terminal outcome and the final
\* successful/total report is made: where no step is left to take, the
\* report has been made.
C1_RunReachesReport ==
    Relational =>
        \/ ENABLED Next
        \/ /\ pc = "reported"
           /\ \A t \in Tables : status[t] \in Terminal

\* C2 (as claimed): at the end of main() the exit status is non-zero exactly
\* when some table failed, a table is counted as successful exactly when its
\* pipeline completed without error, and successful_imports never exceeds
\* the total.
C2_ExitStatusReflectsFailures ==
    pc = "reported" =>
        /\ (exit_status # 0) <=> (\E t \in Tables : status[t] = "FAILED")
        /\ \A t \in Tables : CountsAsSuccess(result[t]) <=> CompletedWithoutError(t)
        /\ successful_imports <= TotalCount

\* C3: when a table exists with other columns than declared, force-recreate
\* is off and the recreation is declined, the schema step fails without
\* raising, the table keeps its columns and rows, it is neither truncated
\* nor loaded, and its import is reported as failed (result 0, not counted,
\* exit status 1).
C3_DeclinedLeavesTableUntouched ==
    \A t \in Tables :
        hist[t].declined =>
            /\ ~force_recreate
            /\ db0[t].cols \notin {<< >>, TABLE_SCHEMAS[t]}
            /\ db[t] = db0[t]
            /\ ~hist[t].fatal
            /\ ~hist[t].schemaOK
            /\ ~hist[t].decided /\ ~hist[t].cleared /\ ~hist[t].asked
            /\ hist[t].attempts = 0
            /\ status[t] = "FAILED"
            /\ ~CountsAsSuccess(result[t])
            /\ pc = "reported" => exit_status = 1

C3_Witness ==
    \E t \in Tables :
        /\ hist[t].declined
        /\ db0[t].rows # << >>
        /\ pc = "reported"

\* C4: whenever the schema step has returned success the table's column list
\* is the declared one, names and order; a table found with other columns
\* holds no row when the step returns, and a table found with the declared
\* columns holds the rows it held.
C4_SchemaSuccessGivesDeclaredColumns ==
    \A t \in Tables :
        hist[t].schemaOK =>
            /\ db[t].cols = TABLE_SCHEMAS[t]
            /\ db0[t].cols # TABLE_SCHEMAS[t] =>
                  \A i \in 1..Len(db[t].rows) : ~IsOldRow(db[t].rows[i])
            /\ status[t] = "SCHEMA_READY" =>
                  db[t].rows = IF db0[t].cols = TABLE_SCHEMAS[t]
                               THEN db0[t].rows ELSE << >>

C4_Witness ==
    \E t \in Tables :
        /\ status[t] = "SCHEMA_READY"
        /\ force_recreate
        /\ db0[t].cols = Reverse(TABLE_SCHEMAS[t])
        /\ db0[t].rows # << >>
        /\ db[t] = [cols |-> TABLE_SCHEMAS[t], rows |-> << >>]

\* C5: the truncate step. Found with rows and clearing accepted: the table
\* holds no row when the first batch is about to be transferred, and none of
\* the rows found is ever seen again. Found with rows and clearing declined:
\* the rows found stay, in place, and new rows come after them. Found
\* without rows: nothing is cleared and no decision is requested.
C5_TruncationPolicy ==
    \A t \in Tables :
        hist[t].decided =>
            LET found == hist[t].found IN
            /\ (found # << >> /\ hist[t].cleared) =>
                  /\ status[t] = "TRUNCATED" => db[t].rows = << >>
                  /\ hist[t].rowsAtLoad = << >>
                  /\ \A i \in 1..Len(db[t].rows) : ~IsOldRow(db[t].rows[i])
            /\ (found # << >> /\ ~hist[t].cleared) =>
                  /\ hist[t].asked
                  /\ Len(db[t].rows) >= Len(found)
                  /\ Take(db[t].rows, Len(found)) = found
                  /\ \A i \in (Len(found) + 1)..Len(db[t].rows) : ~IsOldRow(db[t].rows[i])
            /\ found = << >> => (~hist[t].cleared /\ ~hist[t].asked)
            /\ hist[t].cleared => found # << >>

C5_Witness ==
    \E t \in Tables :
        /\ hist[t].decided /\ hist[t].asked /\ ~hist[t].cleared
        /\ hist[t].found # << >>
        /\ Len(db[t].rows) > Len(hist[t].found)
        /\ status[t] = "DONE"

\* C6 (as claimed): in the relational loaders, a table one of whose
\* bulk-copy calls failed has, once its import has ended, still had every
\* batch of its archives handed to a bulk-copy call, each of them once.
C6_FailedBatchIsSkipped ==
    Relational =>
        \A t \in Tables :
            (status[t] \in {"DONE", "FAILED"} /\ hist[t].copyFailed > 0) =>
                hist[t].attempts = TotalBatches(t)

\* C7: in the relational loaders, once a fatal error has ended the import of
\* table T, no further batch of T is transferred, no row of the archive that
\* was being loaded is in the destination, and nothing is uncommitted; and
\* no step ever changes a table that has reached DONE.
C7_FatalErrorRollsBackOnlyItsTable ==
    /\ [](Relational =>
            \A t \in Tables :
                hist[t].fatal =>
                    /\ status[t] = "FAILED"
                    /\ \A i \in 1..Len(db[t].rows) :
                          db[t].rows[i] \div 100 # hist[t].fatalFile
                    /\ (\A u \in Tables : status[u] # "LOADING") => pending = 0)
    /\ [][Relational =>
            \A t \in Tables :
                /\ hist[t].fatal =>
                      /\ hist'[t].attempts = hist[t].attempts
                      /\ db'[t] = db[t]
                /\ status[t] = "DONE" => db'[t] = db[t]]_vars

C7_Witness ==
    /\ Relational
    /\ \E t \in Tables :
          /\ hist[t].fatal
          /\ hist[t].transfers > 0
          /\ \E u \in Tables : status[u] = "DONE" /\ db[u].rows # << >>

\* C8: the tables are processed one at a time in the declared order: a table
\* is taken up only when every table before it has a terminal outcome, at
\* most one table is in progress, and every lookup table has a terminal
\* outcome before empresas, estabelecimentos, socios or simples is taken up.
C8_TablesInImportOrder ==
    /\ \A i, j \in 1..Len(IMPORT_ORDER) :
          (i < j /\ status[IMPORT_ORDER[j]] # "PENDING") =>
              status[IMPORT_ORDER[i]] \in Terminal
    /\ \A d \in DependentTables : \A l \in LookupTables :
          status[d] # "PENDING" => status[l] \in Terminal
    /\ Cardinality({ t \in Tables : status[t] \notin Terminal \cup {"PENDING"} }) <= 1

C8_Witness ==
    /\ Relational
    /\ status["empresas"] = "LOADING"
    /\ \E l \in LookupTables : status[l] = "FAILED"
    /\ \A l \in LookupTables : status[l] \in Terminal

\* the steps of one table's pipeline
PipelineSteps ==
    { << "PENDING", "SCHEMA_READY" >>, << "SCHEMA_READY", "TRUNCATED" >>,
      << "SCHEMA_READY", "APPENDING" >>, << "TRUNCATED", "LOADING" >>,
      << "APPENDING", "LOADING" >>, << "LOADING", "DONE" >>,
      << "PENDING", "SKIPPED" >> } \cup
    { << s, "FAILED" >> : s \in {"PENDING", "SCHEMA_READY", "TRUNCATED", "APPENDING", "LOADING"} }

\* C9: in the relational loaders a table moves PENDING -> SCHEMA_READY ->
\* (TRUNCATED | APPENDING) -> LOADING -> DONE or to FAILED: no batch is
\* transferred before the schema step succeeded and the truncate decision was
\* taken, no truncate decision is taken before the schema step succeeded, and
\* a table that has failed is never truncated, loaded or changed again.
C9_PipelineOrder ==
    /\ [](Relational =>
            \A t \in Tables :
                /\ hist[t].attempts > 0 => (hist[t].schemaOK /\ hist[t].decided)
                /\ hist[t].decided => hist[t].schemaOK
                /\ status[t] \in {"TRUNCATED", "APPENDING", "LOADING", "DONE"} =>
                      (hist[t].schemaOK /\ hist[t].decided)
                /\ status[t] = "SCHEMA_READY" => (hist[t].schemaOK /\ ~hist[t].decided)
                /\ status[t] \in {"PENDING", "SCHEMA_READY", "TRUNCATED", "APPENDING"} =>
                      hist[t].attempts = 0)
    /\ [][Relational =>
            \A t \in Tables :
                /\ status'[t] # status[t] => << status[t], status'[t] >> \in PipelineSteps
                /\ status[t] = "FAILED" =>
                      /\ status'[t] = "FAILED"
                      /\ hist'[t] = hist[t]
                      /\ db'[t] = db[t]]_vars

C9_Witness ==
    /\ Relational
    /\ pc = "reported"
    /\ \E t \in Tables :
          /\ status[t] = "FAILED"
          /\ hist[t].schemaOK /\ hist[t].decided /\ hist[t].transfers > 0

\* C10: in cnpj_importer and import_to_postgres index creation runs at most
\* once, only when every table has a terminal outcome, and has run once when
\* the summary is reached, whether or not tables failed; no index exists
\* while a table is still pending or in progress.
C10_IndexesOnceAfterAllTables ==
    Relational =>
        /\ index_runs <= 1
        /\ index_runs = 1 => \A t \in Tables : status[t] \in Terminal
        /\ (\E t \in Tables : status[t] \notin Terminal) => idx = {}
        /\ pc \in {"summary", "reported", "crashed"} <=> index_runs = 1

C10_Witness ==
    /\ Relational
    /\ index_runs = 1
    /\ idx # {}
    /\ \E t \in Tables : status[t] = "FAILED"

\* C11 (as claimed): index creation is best effort per index. Once
\* create_indexes has run, every declared index whose own CREATE INDEX would
\* succeed on the tables as they are exists, and the run has not stopped
\* short of the summary.
C11_IndexCreationBestEffort ==
    (Relational /\ index_runs = 1) =>
        /\ pc # "crashed"
        /\ \A i \in (IF script = "importer" THEN DeclaredIndexes ELSE INDEXES) :
              Creatable(db, i) => i.name \in idx

\* no schema, truncate, load or index step has been taken
NoTableWork ==
    /\ db = db0
    /\ idx = {}
    /\ index_runs = 0
    /\ pending = 0
    /\ \A t \in Tables : status[t] = "PENDING" /\ hist[t] = NoHist

\* C12: connect_to_postgres calls psycopg2.connect at most max_retries
\* times; it sleeps before every call but the first, each time for
\* retry_delay; once a call has succeeded no further call is made; and when
\* the last call has failed the run ends with status 1 and no table work
\* has been done. No table work is done without a connection.
C12_BoundedConnectionRetries ==
    /\ [](/\ connects <= max_retries
          /\ Len(slept) = (IF connects = 0 THEN 0 ELSE connects - 1)
          /\ \A i \in 1..Len(slept) : slept[i] = retry_delay
          /\ ~conn => NoTableWork
          /\ conn => pc \notin {"connect", "exited"}
          /\ (~conn /\ pc # "connect") =>
                /\ pc = "exited"
                /\ connects = max_retries
                /\ exit_status = 1)
    /\ [][conn => (conn' /\ connects' = connects /\ slept' = slept)]_vars

C12_Witness ==
    /\ conn
    /\ connects = max_retries
    /\ Len(slept) = max_retries - 1
    /\ pc = "reported"
    /\ \E t \in Tables : status[t] = "DONE" /\ db[t].rows # << >>

\* the batch size of the running loader
BatchSize == IF script = "mongodb" THEN MONGO_BATCH_SIZE ELSE BATCH_SIZE

\* rows of all readable archives of table t
TotalRows(t) ==
    LET F[i \in 0..Len(src[t])] ==
          IF i = 0 THEN 0
          ELSE F[i - 1] + (IF src[t][i].bad THEN 0 ELSE src[t][i].rows)
    IN F[Len(src[t])]

\* transfer calls made for archive f of table t
CallsOf(t, f) ==
    Cardinality({ i \in 1..Len(hist[t].calls) : hist[t].calls[i].f = f })

C14_PartialRejectionTolerated ==
    script = "mongodb" =>
        \A t \in Tables :
            LET accepted == Len(db[t].rows) - Len(hist[t].rowsAtLoad) IN
            /\ hist[t].copyFailed > 0 => status[t] \in {"LOADING", "DONE"}
            /\ status[t] = "LOADING" => total_inserted = accepted
            /\ status[t] = "DONE" =>
                  /\ result[t] = accepted
                  /\ hist[t].attempts =
                        (src[t][1].rows + MONGO_BATCH_SIZE - 1) \div MONGO_BATCH_SIZE

C14_Witness ==
    /\ script = "mongodb"
    /\ \E t \in Tables :
          /\ status[t] = "DONE"
          /\ hist[t].copyFailed = 1
          /\ hist[t].attempts = 2
          /\ result[t] = 2
          /\ RowId(1, 3) \in Range(db[t].rows)

\* C15: with force-recreate and force-truncate set, the second of two runs
\* of cnpj_importer over the same archives ends with every table holding
\* the columns and rows the first run left, each row once.
C15_RerunIsIdempotent ==
    (run = 2 /\ pc = "reported") =>
        \A t \in Tables :
            /\ db[t] = db1[t]
            /\ \A i, j \in 1..Len(db[t].rows) : i # j => db[t].rows[i] # db[t].rows[j]

C15_Witness ==
    /\ run = 2 /\ pc = "reported"
    /\ \E t \in Tables :
          /\ Len(src[t]) = 2
          /\ Len(db[t].rows) = 2 * MaxRows
          /\ hist[t].cleared
          /\ db[t] = db1[t]

\* the force configuration the running loader reads for destructive steps:
\* cnpj_importer has PG_FORCE_TRUNCATE for the truncate step,
\* import_to_postgres has PG_FORCE_RECREATE only
ForceConfigured == IF script = "importer" THEN force_truncate ELSE force_recreate

\* C16 (as claimed): in the relational loaders, when the force configuration
\* is set the truncate step clears a table found with rows without
\* requesting a confirmation; a confirmation is requested only when force is
\* not configured.
C16_ForceTruncatesWithoutPrompt ==
    Relational =>
        \A t \in Tables :
            /\ (ForceConfigured /\ hist[t].decided /\ hist[t].found # << >>) =>
                  (hist[t].cleared /\ ~hist[t].asked)
            /\ hist[t].asked => ~ForceConfigured

\* the rows table t has received: its destination table, or its output file
Received(t) == IF script = "merger" THEN outfile[t].rows ELSE db[t].rows

\* C17: in cnpj_importer and cnpj_merger an archive without exactly one
\* inner file gives no row to the table's destination or output file; the
\* loop over the table's archives goes through every archive all the same,
\* the table is not failed for it, and the run goes on until every table
\* has its outcome.
C17_BadArchiveSkippedAlone ==
    script \in {"importer", "merger"} =>
        /\ \A t \in Tables :
              /\ \A f \in 1..Len(src[t]) :
                    src[t][f].bad =>
                        \A i \in 1..Len(Received(t)) : Received(t)[i] \div 100 # f
              /\ status[t] = "DONE" => hist[t].opened = Len(src[t])
              /\ (hist[t].opened > 0 /\ ~hist[t].fatal) => status[t] \in {"LOADING", "DONE"}
        /\ ENABLED Next \/ \A t \in Tables : status[t] \in Terminal

C17_Witness ==
    /\ script = "importer"
    /\ pc = "reported"
    /\ \E t \in Tables :
          /\ Len(src[t]) = 2
          /\ src[t][1].bad
          /\ status[t] = "DONE"
          /\ result[t] = MaxRows
          /\ db[t].rows = [ i \in 1..MaxRows |-> RowId(2, i) ]
          /\ \E u \in Tables : u # t /\ status[u] = "DONE" /\ db[u].rows # << >>

\* the child tables have been read and grouped
Grouped == jpc \in {"assemble", "done", "crashed"}

RECURSIVE SumOfSizes(_, _)
\* sum(len(group) for group in grouped), over the groups of the keys in ks
SumOfSizes(g, ks) ==
    IF ks = {} THEN 0
    ELSE LET k == CHOOSE x \in ks : TRUE
         IN Len(g[k]) + SumOfSizes(g, ks \ {k})

\* the groups of g that hold row r
GroupsOf(g, r) == { k \in DOMAIN g : \E i \in 1..Len(g[k]) : g[k][i] = r }

\* g loses and duplicates no row of the file
GroupsAllOf(g, csv) ==
    /\ SumOfSizes(g, DOMAIN g) = Len(csv.rows)
    /\ \A i \in 1..Len(csv.rows) : GroupsOf(g, csv.rows[i]) = {csv.rows[i].cnpj_basico}

\* C18 (as claimed): once a child table is grouped by cnpj_basico, the sizes
\* of its groups add up to the number of rows read and every row is in the
\* group of its own key and in no other, rows with an empty key included.
C18_GroupingLosesNothing ==
    Grouped =>
        /\ GroupsAllOf(estabelecimentos_grouped, estabelecimentos_csv)
        /\ socios_csv.exists => GroupsAllOf(socios_grouped, socios_csv)

\* the enriched sub-object of a code: null description when the lookup was
\* not loaded or does not know the code
Enriched(name, code) ==
    IF code = NA THEN Null
    ELSE [codigo |-> code,
          descricao |-> IF name \in lookups /\ code \in LookupCodes
                        THEN [description_of |-> code] ELSE Null]

\* the rows grouped under key
GroupOf(g, key) == IF key \in DOMAIN g THEN g[key] ELSE << >>

\* document d has one sub-document for every child row grouped under the key
\* of parent row p, each with its enriched sub-object
AllChildrenEnriched(p, d) ==
    LET es == GroupOf(estabelecimentos_grouped, p.cnpj_basico)
        ss == GroupOf(socios_grouped, p.cnpj_basico)
    IN /\ d.natureza_juridica = Enriched("natureza", p.natureza_juridica)
       /\ Len(d.estabelecimentos) = Len(es)
       /\ \A i \in 1..Len(es) : \E j \in 1..Len(d.estabelecimentos) :
              /\ d.estabelecimentos[j].id = es[i].id
              /\ d.estabelecimentos[j].motivo_situacao_cadastral =
                     Enriched("motivos", es[i].motivo_situacao_cadastral)
       /\ Len(d.socios) = Len(ss)
       /\ \A i \in 1..Len(ss) :
              d.socios[i].qualificacao = Enriched("qualificacoes", ss[i].qualificacao_do_socio)

\* C19 (as claimed): assembly never fails on lookups. No error leaves the
\* run, and every parent row gone through has its document with all the
\* child sub-documents of its key, where a code without match, or a code of
\* a lookup that was not loaded, has a null description.
C19_AssemblyNeverFailsOnLookups ==
    /\ jpc # "crashed"
    /\ Len(jsonl_file) = row
    /\ \A i \in 1..Len(jsonl_file) : AllChildrenEnriched(empresas_csv.rows[i], jsonl_file[i])

\* the parent rows gone through so far that have a primary key
KeyedParents == { i \in 1..row : empresas_csv.rows[i].cnpj_basico # NA }

\* C20 (as claimed): a parent row without cnpj_basico is a defect of that
\* row. No document is written for it and it is not among the companies
\* counted as processed, so that the rows gone through and the count
\* reported differ by the defect rows.
C20_KeylessParentIsDefect ==
    /\ \A i \in 1..Len(jsonl_file) : jsonl_file[i].id # NA
    /\ total_empresas = Cardinality(KeyedParents)

\* the file has no row of this key
NoRows(csv, key) == \A i \in 1..Len(csv.rows) : csv.rows[i].cnpj_basico # key

\* C21: a parent row whose key has no rows in estabelecimentos.csv, or in
\* socios.csv, or whose socios.csv does not exist, has a document in which
\* that child field is the empty list, and no run is ended by the error of a
\* missing group (only by that of a lookup that was not loaded).
C21_MissingGroupIsEmptyList ==
    /\ \A i \in 1..Len(jsonl_file) :
          LET p == empresas_csv.rows[i]
              d == jsonl_file[i]
          IN /\ NoRows(estabelecimentos_csv, p.cnpj_basico) => d.estabelecimentos = << >>
             /\ NoRows(socios_csv, p.cnpj_basico) => d.socios = << >>
    /\ jpc = "crashed" =>
          RaisesKeyError("natureza", empresas_csv.rows[row + 1].natureza_juridica)

\* a document was written for a parent whose key is in no row of a child
\* table that has rows, while socios.csv does not exist
C21_Witness ==
    /\ ~socios_csv.exists
    /\ estabelecimentos_csv.rows # << >>
    /\ \E i \in 1..Len(jsonl_file) :
          /\ empresas_csv.rows[i].cnpj_basico \in Keys
          /\ NoRows(estabelecimentos_csv, empresas_csv.rows[i].cnpj_basico)
          /\ jsonl_file[i].estabelecimentos = << >>
          /\ jsonl_file[i].socios = << >>

\* the list is in ascending order of (not matriz, cnpj)
Sorted(list) ==
    \A j, k \in 1..Len(list) : j < k => ~SortKeyLess(list[k], list[j])

\* C22 (as claimed): in every document the estabelecimentos list is sorted
\* by (not matriz, cnpj): each matriz before each filial, and equal flags in
\* ascending order of cnpj, whatever the order of the rows in the file.
C22_EstabelecimentosSorted ==
    \A i \in 1..Len(jsonl_file) : Sorted(jsonl_file[i].estabelecimentos)

\* the child row of estabelecimentos.csv that sub-document e was built from
RowOf(e) == estabelecimentos_csv.rows[e.id]

\* the values of a date field that stand for "no date"
Sentinel(value) ==
    value \in {NAText, Text(<< >>), Text(<< "0" >>),
               Text(<< "0", "0", "0", "0", "0", "0", "0", "0" >>)}

\* the field is a string of 8 digits
EightDigits(value) ==
    /\ value # NAText
    /\ Len(value.s) = 8
    /\ \A i \in 1..8 : value.s[i] \in DateDigits

\* out is YYYY-MM-DD with the digits of value, which is YYYYMMDD
Formatted(value, out) ==
    /\ out # Null
    /\ Len(out.s) = 10
    /\ out.s[5] = "-" /\ out.s[8] = "-"
    /\ \A i \in 1..4 : out.s[i] = value.s[i]
    /\ \A i \in 5..6 : out.s[i + 1] = value.s[i]
    /\ \A i \in 7..8 : out.s[i + 2] = value.s[i]

\* C23: parse_date gives null for a date field that is missing, empty, "0"
\* or "00000000", and for every other string of 8 digits YYYYMMDD the 10
\* characters YYYY-MM-DD with the same digits: never the 8 digits unchanged,
\* never a formatted date for a sentinel.
C23_ParseDate ==
    \A i \in 1..Len(jsonl_file) : \A j \in 1..Len(jsonl_file[i].estabelecimentos) :
        LET e == jsonl_file[i].estabelecimentos[j]
            value == RowOf(e).data_situacao_cadastral
            out == e.data_situacao_cadastral
        IN /\ Sentinel(value) => out = Null
           /\ (EightDigits(value) /\ ~Sentinel(value)) =>
                  Formatted(value, out) /\ out # value

\* a date of 8 digits other than the sentinel was written
C23_Witness ==
    \E i \in 1..Len(jsonl_file) : \E j \in 1..Len(jsonl_file[i].estabelecimentos) :
        /\ RowOf(jsonl_file[i].estabelecimentos[j]).data_situacao_cadastral =
               Text(<< "2", "0", "2", "0", "0", "2", "0", "2" >>)
        /\ jsonl_file[i].estabelecimentos[j].data_situacao_cadastral =
               Text(<< "2", "0", "2", "0", "-", "0", "2", "-", "0", "2" >>)

\* the row has no telephone, no fax and no e-mail
AllAbsent(r) ==
    /\ r.telefone1 \in {NA, ""}
    /\ r.telefone2 \in {NA, ""}
    /\ r.fax \in {NA, ""}
    /\ r.correio_eletronico \in {NA, ""}

\* C24: the contact block of every establishment is null or an object with
\* at least one entry, none of its values null; it is null when telefone1,
\* telefone2, fax and e-mail are all absent.
C24_ContactBlockCollapses ==
    \A i \in 1..Len(jsonl_file) : \A j \in 1..Len(jsonl_file[i].estabelecimentos) :
        LET e == jsonl_file[i].estabelecimentos[j] IN
        /\ e.contato = Null \/
              (DOMAIN e.contato # {} /\ \A k \in DOMAIN e.contato : e.contato[k] # Null)
        /\ AllAbsent(RowOf(e)) => e.contato = Null

\* an establishment without contact data was written with a null block, its
\* area codes being filled
C24_Witness ==
    \E i \in 1..Len(jsonl_file) : \E j \in 1..Len(jsonl_file[i].estabelecimentos) :
        LET e == jsonl_file[i].estabelecimentos[j] IN
        /\ AllAbsent(RowOf(e))
        /\ RowOf(e).ddd1 = "11"
        /\ e.contato = Null

\* C25 (as claimed): in every batch sent to the relational sink the columns
\* of the payload are in the declared order, the one of the COPY column
\* list, so that each value is stored in the column it belongs to.
C25_PayloadInDeclaredOrder ==
    cpc = "copied" =>
        /\ payload.columns = copy_sql
        /\ copy_sql = TABLE_SCHEMAS[copy_table]
        /\ \A r \in 1..Len(stored) : \A i \in 1..Len(stored[r]) :
              stored[r][i].value.column = stored[r][i].column

\* the file at the final path is absent or holds the whole archive
AbsentOrComplete(u) == ~local_files[u].exists \/ local_files[u].bytes = Remote(u)

\* C26 (as claimed): at every moment, also after a failed download, the final
\* path of each archive is absent or holds the complete archive, and a
\* download is skipped only when the local size equals the remote size.
C26_AtomicDownload ==
    /\ \A u \in Links : AbsentOrComplete(u)
    /\ \A w \in DOMAIN worker :
          worker[w].result = "skipped" => worker[w].local_file_size = RemoteSize(worker[w].url)

\* the workers that have the file of link u open for writing
Writers(u) == { w \in DOMAIN worker : worker[w].url = u /\ worker[w].pc = "writing" }

\* C27 (as claimed): no two workers that run at the same time write the same
\* local file, and when the workers are done every file that a worker
\* reports as downloaded holds the archive, however the workers interleaved.
C27_NoWriteRace ==
    /\ \A u \in Links : Cardinality(Writers(u)) <= 1
    /\ (\A w \in DOMAIN worker : worker[w].pc = "returned") =>
          \A w \in DOMAIN worker :
              worker[w].result = "downloaded" => local_files[worker[w].url].bytes = Remote(worker[w].url)

\* the rows of archive f of its source that table t holds
RowsOfArchive(t, f) ==
    { i \in 1..Len(db[t].rows) : \E k \in 1..MaxRows : db[t].rows[i] = RowId(f, k) }

\* the rows that this run has put into table t
RowsOfThisRun(t) == UNION { RowsOfArchive(t, f) : f \in 1..Len(src[t]) }

\* C28 (as claimed): the count that cnpj_importer.import_table returned is
\* the number of rows the run committed to the table, and each archive is
\* in the table with all its rows or with none.
C28_CountIsCommittedRows ==
    \A t \in Tables :
        (script = "importer" /\ status[t] = "DONE") =>
            /\ result[t] = Cardinality(RowsOfThisRun(t))
            /\ \A f \in 1..Len(src[t]) :
                  Cardinality(RowsOfArchive(t, f)) \in {0, src[t][f].rows}

\* the list has exactly one entry for each row of the group
OneEntryPerRow(list, group) ==
    /\ Len(list) = Len(group)
    /\ { list[j].id : j \in 1..Len(list) } = { group[j].id : j \in 1..Len(group) }

\* C29 (as claimed): in the document of every parent row, the
\* estabelecimentos list has exactly one entry per row of the parent's
\* group, and the socios list likewise, whatever the child rows hold and
\* whichever lookups were loaded.
C29_OneEntryPerChildRow ==
    \A i \in 1..Len(jsonl_file) :
        LET key == empresas_csv.rows[i].cnpj_basico IN
        /\ OneEntryPerRow(jsonl_file[i].estabelecimentos, GroupOf(estabelecimentos_grouped, key))
        /\ OneEntryPerRow(jsonl_file[i].socios, GroupOf(socios_grouped, key))

\* the rows of archive f of its source
ArchiveRows(f, a) == [ i \in 1..a.rows |-> RowId(f, i) ]

RECURSIVE MergedRows(_, _)
\* the rows of the first n archives of table t that can be read, in
\* processing order
MergedRows(t, n) ==
    IF n = 0 THEN << >>
    ELSE MergedRows(t, n - 1) \o
         (IF ExactlyOneInnerFile(src[t][n]) THEN ArchiveRows(n, src[t][n]) ELSE << >>)

\* C30 (as claimed): once cnpj_merger has processed a table's archives, the
\* table's output file holds the rows of every archive that could be read,
\* in processing order, and no row of an earlier run, for csv and for
\* parquet, also when the first archive fails.
C30_MergedFileHoldsEveryArchive ==
    \A t \in Tables :
        (script = "merger" /\ status[t] = "DONE") =>
            outfile[t].rows = MergedRows(t, Len(src[t]))

\* the rows table t held when maybe_truncate_table looked at it are all in
\* the table now
PreRunRowsPresent(t) ==
    \A i \in 1..Len(hist[t].found) :
        \E j \in 1..Len(db[t].rows) : db[t].rows[j] = hist[t].found[i]

\* C31 (as claimed): in the relational loaders, when the import of a table
\* has failed after its truncate step was accepted, the rows the table held
\* before the run are still in the table.
C31_FailedImportKeepsPreRunRows ==
    Relational =>
        \A t \in Tables :
            (status[t] = "FAILED" /\ hist[t].cleared) => PreRunRowsPresent(t)

====
